---------------------------- MODULE Spec2Model ----------------------------
(***************************************************************************)
(* Recurrence engine of the task planner: the RecurrenceRule codec, the    *)
(* expansion of a rule into occurrence timestamps, the exception/override  *)
(* resolver and the reconciliation of persisted occurrence rows.           *)
(*                                                                         *)
(* Conventions.                                                            *)
(*   Optional[T]  : None is <<>>, a present value v is <<v>>.              *)
(*   date         : days since 2024-01-01 (a Monday), so that              *)
(*                  date.weekday() is  d % 7  with Monday = 0.             *)
(*   time         : seconds since midnight.                                *)
(*   datetime     : seconds since 2024-01-01T00:00:00                      *)
(*                  (datetime.combine(d, t) = d * 86400 + t).              *)
(*   str          : a decimal number text is its sequence of digits; an    *)
(*                  RRULE text is its sequence of KEY=VALUE tokens (what   *)
(*                  split(';') and split('=', 1) give).                    *)
(***************************************************************************)
EXTENDS Integers, Sequences, FiniteSets, Bags, TLC

VARIABLES
    rule,          \* codec: the RecurrenceRule handed to to_rrule_string
    text,          \* codec: the RRULE text produced (Optional)
    decoded,       \* codec: what from_rrule_string returned (Optional)
    loaded,        \* codec: the rule of the Task _row_to_task built (Optional)
    rule_errors,   \* codec: what validate_recurrence_rule returned (Optional)
    form,          \* editor: the inputs of the open TaskEditorDialog (Optional)
    window,        \* expansion: the window asked for
    preview,       \* editor: the dates update_preview listed (Optional)
    expanded,      \* expansion: what expand returned (Optional)
    now,           \* datetime.now()
    tasks,         \* tasks table: task id -> Optional stored task
    exceptions,    \* recurrence_exceptions table: set of RecurrenceException
    occurrences,   \* task_occurrences table: bag of TaskOccurrence rows
    user_deleted,  \* the occurrences the user has deleted in the main window
    run_results,   \* engine: what the last reconciliation run returned (Optional)
    inflight,      \* engine: worker -> the reconciliation it computed and has not applied (Optional)
    observed,      \* engine: what a reader of the occurrence rows last saw (Optional)
    iter,          \* expansion: the state of a stepwise expansion (Optional)
    titles,        \* tasks table: task id -> title
    task_status,   \* tasks table: task id -> status
    resolved,      \* resolver: the list the resolver returned to its caller (Optional)
    reminder_lock, \* ReminderScheduler.reminder_lock: the thread holding it (Optional)
    active_reminders, \* ReminderScheduler.active_reminders: task id -> timer (Optional)
    stack,         \* per thread: the calls of ReminderScheduler methods in progress
    shown,         \* task ids whose reminder notification was shown
    db_tasks,      \* tasks table: ids of the tasks of the current list
    next_id,       \* tasks table: the next AUTOINCREMENT id
    current_tasks, \* MainWindow.current_tasks
    widget_tasks,  \* TaskListWidget.tasks
    same_list,     \* current_tasks and TaskListWidget.tasks are one list object
    status_count   \* the total the status toolbar shows

codec_vars == <<rule, text, decoded, loaded, rule_errors>>
expand_vars == <<form, window, preview, expanded>>
store_vars == <<now, tasks, exceptions, occurrences, user_deleted>>
engine_vars == <<run_results, inflight, observed, iter>>
resolve_vars == <<titles, task_status, resolved>>
remind_vars == <<reminder_lock, active_reminders, stack, shown>>
window_vars == <<db_tasks, next_id, current_tasks, widget_tasks, same_list, status_count>>
vars == <<rule, text, decoded, loaded, rule_errors,
          form, window, preview, expanded,
          now, tasks, exceptions, occurrences, user_deleted,
          run_results, inflight, observed, iter,
          titles, task_status, resolved,
          reminder_lock, active_reminders, stack, shown,
          db_tasks, next_id, current_tasks, widget_tasks, same_list, status_count>>

None == <<>>
Some(v) == <<v>>
IsSome(o) == o /= <<>>
Get(o) == o[1]

----------------------------------------------------------------------------
(* Bounds of the model. *)

\* Last calendar year the model's calendar covers (dateutil stops at year 9999).
MaxYear == 2025

\* Length of the generated sequence the expansion claims are compared against.
RefCount == 20

\* A stepwise expansion is followed for at most this many periods.
MaxPeriods == 20
\* The tasks created in the main window.
MaxTasks == 4

----------------------------------------------------------------------------
(* datetime.date / datetime.datetime arithmetic. *)

is_leap(y) == (y % 4 = 0) /\ ((y % 100 /= 0) \/ (y % 400 = 0))

days_in_month(y, m) ==
    IF m = 2 THEN (IF is_leap(y) THEN 29 ELSE 28)
    ELSE IF m \in {4, 6, 9, 11} THEN 30 ELSE 31

days_in_year(y) == IF is_leap(y) THEN 366 ELSE 365

RECURSIVE days_before_year(_)
days_before_year(y) ==
    IF y <= 2024 THEN 0 ELSE days_before_year(y - 1) + days_in_year(y - 1)

RECURSIVE days_before_month(_, _)
days_before_month(y, m) ==
    IF m <= 1 THEN 0 ELSE days_before_month(y, m - 1) + days_in_month(y, m - 1)

\* date(y, m, d), as days since 2024-01-01.
date(y, m, d) == days_before_year(y) + days_before_month(y, m) + (d - 1)

valid_ymd(y, m, d) == m \in 1..12 /\ d >= 1 /\ d <= days_in_month(y, m)

year_of(n) ==
    CHOOSE y \in 2024..(MaxYear + 1) :
        days_before_year(y) <= n /\ n < days_before_year(y) + days_in_year(y)

month_of(n) ==
    LET y == year_of(n)
        k == n - days_before_year(y)
    IN  CHOOSE m \in 1..12 :
            days_before_month(y, m) <= k /\ k < days_before_month(y, m) + days_in_month(y, m)

day_of(n) ==
    LET y == year_of(n) IN n - days_before_year(y) - days_before_month(y, month_of(n)) + 1

weekday(n) == n % 7

combine(d, t) == d * 86400 + t
date_of(dt) == dt \div 86400
time_of(dt) == dt % 86400

\* The last day the calendar covers.
LastDay == date(MaxYear, 12, 31)

----------------------------------------------------------------------------
(* Text of numbers: str(n), int(s), strftime('%Y%m%d'), strptime. *)

RECURSIVE str(_)
str(n) == IF n < 10 THEN <<n>> ELSE Append(str(n \div 10), n % 10)

RECURSIVE int(_)
int(s) == IF s = <<>> THEN 0 ELSE int(SubSeq(s, 1, Len(s) - 1)) * 10 + s[Len(s)]

RECURSIVE zfill(_, _)
zfill(s, width) == IF Len(s) >= width THEN s ELSE zfill(<<0>> \o s, width)

strftime_Ymd(d) ==
    zfill(str(year_of(d)), 4) \o zfill(str(month_of(d)), 2) \o zfill(str(day_of(d)), 2)

\* A call's outcome: the value returned, or the exception raised.
Ok(v) == [ok |-> TRUE, value |-> v]
Raise(e) == [ok |-> FALSE, error |-> e]

\* datetime.strptime(s, '%Y%m%d').date(); ValueError when s is no such date.
strptime_Ymd(s) ==
    IF Len(s) /= 8 THEN Raise("ValueError")
    ELSE LET y == int(SubSeq(s, 1, 4))
             m == int(SubSeq(s, 5, 6))
             d == int(SubSeq(s, 7, 8))
         IN  IF y \in 2024..MaxYear /\ valid_ymd(y, m, d)
             THEN Ok(date(y, m, d)) ELSE Raise("ValueError")

----------------------------------------------------------------------------
(* RecurrenceRule and its codec. *)

RecurrenceFrequency == {"DAILY", "WEEKLY", "MONTHLY", "YEARLY"}

RecurrenceRule(f, i, dow, until, cnt) ==
    [frequency |-> f, interval |-> i, days_of_week |-> dow,
     until_date |-> until, count |-> cnt]

days_map == <<"MO", "TU", "WE", "TH", "FR", "SA", "SU">>

Token(k, v) == [key |-> k, value |-> v]

\* Python truthiness of an Optional[List[int]], an Optional[int], an Optional[date].
truthy_list(o) == IsSome(o) /\ Get(o) /= <<>>
truthy_int(o) == IsSome(o) /\ Get(o) /= 0
truthy_date(o) == IsSome(o)

to_rrule_string(self) ==
    <<Token("FREQ", self.frequency)>>
    \o (IF self.interval > 1 THEN <<Token("INTERVAL", str(self.interval))>> ELSE <<>>)
    \o (IF truthy_list(self.days_of_week)
        THEN <<Token("BYDAY", [i \in 1..Len(Get(self.days_of_week)) |->
                                   days_map[Get(self.days_of_week)[i] + 1]])>>
        ELSE <<>>)
    \o (IF truthy_date(self.until_date)
        THEN <<Token("UNTIL", strftime_Ymd(Get(self.until_date)))>> ELSE <<>>)
    \o (IF truthy_int(self.count)
        THEN <<Token("COUNT", str(Get(self.count)))>> ELSE <<>>)

\* has_key that looks at the first token only.
has_key_first(parts, k) == parts /= <<>> /\ parts[1].key = k

\* rule_dict: the last token of a key wins.
has_key(parts, k) == \E i \in 1..Len(parts) : parts[i].key = k
dict_get(parts, k) ==
    parts[CHOOSE i \in 1..Len(parts) :
              parts[i].key = k /\ \A j \in (i + 1)..Len(parts) : parts[j].key /= k].value

\* {"MO": 0, ...}[day] for the codes of days_str that are in the map.
day_index(code) == CHOOSE i \in 0..6 : days_map[i + 1] = code
is_day_code(code) == \E i \in 0..6 : days_map[i + 1] = code
RECURSIVE parse_byday(_)
parse_byday(codes) ==
    IF codes = <<>> THEN <<>>
    ELSE (IF is_day_code(Head(codes)) THEN <<day_index(Head(codes))>> ELSE <<>>)
         \o parse_byday(Tail(codes))

from_rrule_string(parts) ==
    LET freq == IF has_key(parts, "FREQ") THEN dict_get(parts, "FREQ") ELSE "DAILY"
        interval == IF has_key(parts, "INTERVAL") THEN int(dict_get(parts, "INTERVAL")) ELSE 1
        days_of_week == IF has_key(parts, "BYDAY")
                        THEN Some(parse_byday(dict_get(parts, "BYDAY"))) ELSE None
        until == IF has_key(parts, "UNTIL")
                 THEN strptime_Ymd(dict_get(parts, "UNTIL")) ELSE Ok(None)
        count == IF has_key(parts, "COUNT") THEN Some(int(dict_get(parts, "COUNT"))) ELSE None
    IN  IF freq \notin RecurrenceFrequency THEN Raise("ValueError")
        ELSE IF ~until.ok THEN until
        ELSE Ok(RecurrenceRule(freq, interval, days_of_week,
                               IF has_key(parts, "UNTIL") THEN Some(until.value) ELSE None,
                               count))

\* validate_recurrence_rule(rule), with date.today() as a parameter: the list of
\* errors (one "weekday" error per offending day).
RECURSIVE weekday_errors(_)
weekday_errors(days) ==
    IF days = <<>> THEN <<>>
    ELSE (IF Head(days) >= 0 /\ Head(days) <= 6 THEN <<>> ELSE <<"weekday_range">>)
         \o weekday_errors(Tail(days))

validate_recurrence_rule(r, today) ==
    (IF r.interval < 1 THEN <<"interval">> ELSE <<>>)
    \o (IF r.frequency = "WEEKLY" /\ ~truthy_list(r.days_of_week)
        THEN <<"weekly_needs_days">> ELSE <<>>)
    \o (IF truthy_list(r.days_of_week) THEN weekday_errors(Get(r.days_of_week)) ELSE <<>>)
    \o (IF truthy_date(r.until_date) /\ Get(r.until_date) < today
        THEN <<"until_in_past">> ELSE <<>>)
    \o (IF truthy_int(r.count) /\ Get(r.count) < 1 THEN <<"count">> ELSE <<>>)

----------------------------------------------------------------------------
(* The editor form and the recurrence preview (TaskEditorDialog).          *)

\* The form's inputs: repeat_checkbox, frequency_combo index, interval_input,
\* the checked day_checkboxes, the end radio button (0 never, 1 date, 2 count),
\* end_date_input, end_count_input, date_input, has_time_checkbox, time_input.
Form(rep, f, i, days, et, ed, ec, d, ht, t) ==
    [repeat |-> rep, frequency |-> f, interval |-> i, days |-> days,
     end_type |-> et, end_date |-> ed, end_count |-> ec,
     date |-> d, has_time |-> ht, time |-> t]

frequency_map == <<"DAILY", "WEEKLY", "MONTHLY", "YEARLY">>

\* [i for i, checkbox in enumerate(day_checkboxes) if checkbox.isChecked()]
RECURSIVE checked_days(_, _)
checked_days(days, i) ==
    IF i > 6 THEN <<>>
    ELSE (IF i \in days THEN <<i>> ELSE <<>>) \o checked_days(days, i + 1)

\* create_recurrence_rule(): Optional[RecurrenceRule]
create_recurrence_rule(self) ==
    IF ~self.repeat THEN None
    ELSE LET frequency == frequency_map[self.frequency + 1]
             days_of_week ==
                 IF frequency = "WEEKLY" /\ checked_days(self.days, 0) /= <<>>
                 THEN Some(checked_days(self.days, 0)) ELSE None
             until_date == IF self.end_type = 1 THEN Some(self.end_date) ELSE None
             count == IF self.end_type = 2 THEN Some(self.end_count) ELSE None
         IN  Some(RecurrenceRule(frequency, self.interval, days_of_week, until_date, count))

\* The preview shows at most this many dates (min(rule.count, 10), dates[:10]).
PreviewLimit == 10

Min(a, b) == IF a <= b THEN a ELSE b

\* The element of a one-element set: only({e(x) : x \in {v}}) is e(v), with v
\* computed once.
only(S) == CHOOSE x \in S : TRUE

\* rrule_kwargs without the branch for rule.count: every rule without an end
\* date gets the preview's count.
rrule_kwargs_no_count(r, start_datetime) ==
    [freq |-> r.frequency,
     interval |-> r.interval,
     dtstart |-> start_datetime,
     byweekday |-> IF truthy_list(r.days_of_week) THEN r.days_of_week ELSE None,
     until |-> IF truthy_date(r.until_date)
               THEN Some(combine(Get(r.until_date), 86399)) ELSE None,
     count |-> IF truthy_date(r.until_date) THEN None ELSE Some(PreviewLimit)]

\* rrule_kwargs without the branch for rule.days_of_week: byweekday is never
\* passed.
rrule_kwargs_no_byweekday(r, start_datetime) ==
    [freq |-> r.frequency,
     interval |-> r.interval,
     dtstart |-> start_datetime,
     byweekday |-> None,
     until |-> IF truthy_date(r.until_date)
               THEN Some(combine(Get(r.until_date), 86399)) ELSE None,
     count |-> IF truthy_date(r.until_date) THEN None
               ELSE IF truthy_int(r.count) THEN Some(Min(Get(r.count), PreviewLimit))
               ELSE Some(PreviewLimit)]

\* rrule_kwargs without the last branch: a rule without an end date and
\* without a count gets no count.
rrule_kwargs_unbounded(r, start_datetime) ==
    [freq |-> r.frequency,
     interval |-> r.interval,
     dtstart |-> start_datetime,
     byweekday |-> IF truthy_list(r.days_of_week) THEN r.days_of_week ELSE None,
     until |-> IF truthy_date(r.until_date)
               THEN Some(combine(Get(r.until_date), 86399)) ELSE None,
     count |-> IF truthy_date(r.until_date) THEN None
               ELSE IF truthy_int(r.count) THEN Some(Min(Get(r.count), PreviewLimit))
               ELSE None]

\* rrule_kwargs with the end date at 00:00:00 instead of 23:59:59.
rrule_kwargs_until_midnight(r, start_datetime) ==
    [freq |-> r.frequency,
     interval |-> r.interval,
     dtstart |-> start_datetime,
     byweekday |-> IF truthy_list(r.days_of_week) THEN r.days_of_week ELSE None,
     until |-> IF truthy_date(r.until_date)
               THEN Some(combine(Get(r.until_date), 0)) ELSE None,
     count |-> IF truthy_date(r.until_date) THEN None
               ELSE IF truthy_int(r.count) THEN Some(Min(Get(r.count), PreviewLimit))
               ELSE Some(PreviewLimit)]

\* rrule_kwargs of update_preview, with byweekday / until / count as Optionals.
rrule_kwargs(r, start_datetime) ==
    [freq |-> r.frequency,
     interval |-> r.interval,
     dtstart |-> start_datetime,
     byweekday |-> IF truthy_list(r.days_of_week) THEN r.days_of_week ELSE None,
     until |-> IF truthy_date(r.until_date)
               THEN Some(combine(Get(r.until_date), 86399)) ELSE None,
     count |-> IF truthy_date(r.until_date) THEN None
               ELSE IF truthy_int(r.count) THEN Some(Min(Get(r.count), PreviewLimit))
               ELSE Some(PreviewLimit)]

(* dateutil.rrule.  With no byweekday given, WEEKLY recurs on dtstart's      *)
(* weekday, MONTHLY on dtstart's day of the month and YEARLY on dtstart's    *)
(* month and day; a month or year that has no such day yields nothing.  A    *)
(* WEEKLY rule with byweekday yields the listed weekdays of every            *)
(* interval-th week (weeks start on Monday), in date order.  Dates before    *)
(* dtstart are skipped without counting; iteration ends at the first date    *)
(* after until, after count dates, or at the end of the calendar.            *)
(* update_preview passes byweekday only for WEEKLY rules                     *)
(* (create_recurrence_rule sets days_of_week for no other frequency).        *)

\* period_start without the interval of a WEEKLY rule: every week is a period.
period_start_every_week(kw, k) ==
    LET d0 == date_of(kw.dtstart)
    IN  CASE kw.freq = "DAILY" -> d0 + k * kw.interval
          [] kw.freq = "WEEKLY" -> d0 - weekday(d0) + 7 * k
          [] kw.freq = "MONTHLY" ->
                LET mi == (month_of(d0) - 1) + k * kw.interval
                IN  IF year_of(d0) + (mi \div 12) > MaxYear THEN LastDay + 1
                    ELSE date(year_of(d0) + (mi \div 12), (mi % 12) + 1, 1)
          [] kw.freq = "YEARLY" ->
                IF year_of(d0) + k * kw.interval > MaxYear THEN LastDay + 1
                ELSE date(year_of(d0) + k * kw.interval, 1, 1)

\* The first day of the k-th period.
period_start(kw, k) ==
    LET d0 == date_of(kw.dtstart)
    IN  CASE kw.freq = "DAILY" -> d0 + k * kw.interval
          [] kw.freq = "WEEKLY" -> d0 - weekday(d0) + 7 * k * kw.interval
          [] kw.freq = "MONTHLY" ->
                LET mi == (month_of(d0) - 1) + k * kw.interval
                IN  IF year_of(d0) + (mi \div 12) > MaxYear THEN LastDay + 1
                    ELSE date(year_of(d0) + (mi \div 12), (mi % 12) + 1, 1)
          [] kw.freq = "YEARLY" ->
                IF year_of(d0) + k * kw.interval > MaxYear THEN LastDay + 1
                ELSE date(year_of(d0) + k * kw.interval, 1, 1)

\* The candidate dates of the k-th period, in date order.
period_dates(kw, k) ==
    LET d0 == date_of(kw.dtstart)
        p == period_start(kw, k)
    IN  CASE kw.freq = "DAILY" -> <<p>>
          [] kw.freq = "WEEKLY" ->
                LET wanted == IF IsSome(kw.byweekday)
                              THEN {Get(kw.byweekday)[i] : i \in 1..Len(Get(kw.byweekday))}
                              ELSE {weekday(d0)}
                IN  [i \in 1..Len(checked_days(wanted, 0)) |-> p + checked_days(wanted, 0)[i]]
          [] kw.freq = "MONTHLY" ->
                IF day_of(d0) <= days_in_month(year_of(p), month_of(p))
                THEN <<p + day_of(d0) - 1>> ELSE <<>>
          [] kw.freq = "YEARLY" ->
                IF valid_ymd(year_of(p), month_of(d0), day_of(d0))
                THEN <<date(year_of(p), month_of(d0), day_of(d0))>> ELSE <<>>

\* rrule_emit without the comparison with dtstart: the dates of the first
\* period that lie before dtstart are yielded too.
RECURSIVE rrule_emit_before_dtstart(_, _, _)
rrule_emit_before_dtstart(kw, cands, out) ==
    IF IsSome(kw.count) /\ Len(out) >= Get(kw.count) THEN [out |-> out, done |-> TRUE]
    ELSE IF cands = <<>> THEN [out |-> out, done |-> FALSE]
    ELSE LET res == combine(Head(cands), time_of(kw.dtstart))
         IN  IF Head(cands) > LastDay THEN [out |-> out, done |-> TRUE]
             ELSE IF IsSome(kw.until) /\ res > Get(kw.until) THEN [out |-> out, done |-> TRUE]
             ELSE rrule_emit_before_dtstart(kw, Tail(cands), Append(out, res))

\* One period's candidates appended to out; done when the iteration ends here.
RECURSIVE rrule_emit(_, _, _)
rrule_emit(kw, cands, out) ==
    IF IsSome(kw.count) /\ Len(out) >= Get(kw.count) THEN [out |-> out, done |-> TRUE]
    ELSE IF cands = <<>> THEN [out |-> out, done |-> FALSE]
    ELSE LET res == combine(Head(cands), time_of(kw.dtstart))
         IN  IF Head(cands) > LastDay THEN [out |-> out, done |-> TRUE]
             ELSE IF IsSome(kw.until) /\ res > Get(kw.until) THEN [out |-> out, done |-> TRUE]
             ELSE IF res >= kw.dtstart THEN rrule_emit(kw, Tail(cands), Append(out, res))
             ELSE rrule_emit(kw, Tail(cands), out)

RECURSIVE rrule_iter(_, _, _)
rrule_iter(kw, k, out) ==
    IF period_start(kw, k) > LastDay THEN out
    ELSE LET r == rrule_emit(kw, period_dates(kw, k), out)
         IN  IF r.done THEN r.out ELSE rrule_iter(kw, k + 1, r.out)

\* list(rrule(**rrule_kwargs))
rrule(kw) == rrule_iter(kw, 0, <<>>)

Take(s, n) == SubSeq(s, 1, Min(n, Len(s)))
Range(s) == {s[i] : i \in 1..Len(s)}

\* start_datetime of update_preview: 09:00 when no time of day is given.
start_datetime(self) ==
    combine(self.date, IF self.has_time THEN self.time ELSE 9 * 3600)

\* The dates update_preview lists (before they are formatted): dates[:10].
preview_dates(r, start) == Take(rrule(rrule_kwargs(r, start)), PreviewLimit)

\* expand(rule, anchor, window_start, window_end, max_results): the generated
\* dates that lie inside the window; a bound that is None is not applied.
in_window(dt, w) ==
    /\ (IsSome(w.start) => dt >= Get(w.start))
    /\ (IsSome(w.end) => dt <= Get(w.end))

RECURSIVE select_window(_, _)
select_window(dates, w) ==
    IF dates = <<>> THEN <<>>
    ELSE (IF in_window(Head(dates), w) THEN <<Head(dates)>> ELSE <<>>)
         \o select_window(Tail(dates), w)

expand(r, anchor, w) == select_window(preview_dates(r, anchor), w)

----------------------------------------------------------------------------
(* Tasks, occurrence rows and exceptions.                                  *)

\* A stored task: the rule as its RRULE text (Optional) and the anchor.
StoredTask(rrule_text, start) == [recurrence_rule |-> rrule_text, recurrence_start |-> start]

\* TaskOccurrence.  The row id is the storage's own: the table is a bag of
\* rows, in which two rows of equal content are two copies.  orphaned is the
\* "no longer generated" flag of a completed occurrence.
TaskOccurrence(task_id, scheduled_at, status, completed_at) ==
    [task_id |-> task_id, scheduled_at |-> scheduled_at,
     status |-> status, completed_at |-> completed_at,
     override_title |-> None, override_due_at |-> None, orphaned |-> FALSE]

RecurrenceException(task_id, exception_date) ==
    [task_id |-> task_id, exception_date |-> exception_date]

\* is_completed that holds for no occurrence.
is_completed_never(occ) == occ.status = "no status"

\* is_completed that holds for every occurrence.
is_completed_always(occ) == occ.status \in {"pending", "completed"}

\* TaskOccurrence.is_completed
is_completed(occ) == occ.status = "completed"

\* mark_pending that leaves the completion time in place.
mark_pending_keeps_time(occ) == [occ EXCEPT !.status = "pending"]

\* TaskOccurrence.mark_completed / mark_pending
mark_completed(occ, at) == [occ EXCEPT !.status = "completed", !.completed_at = Some(at)]
mark_pending(occ) == [occ EXCEPT !.status = "pending", !.completed_at = None]

\* Task.mark_completed / mark_pending: the status of a Task.
Task_mark_completed(status) == "completed"
Task_mark_pending(status) == "pending"

\* validate_task(task): only the due time can be wrong once the title is given.
validate_task(due_at, at) ==
    IF IsSome(due_at) /\ Get(due_at) < at THEN <<"due_in_past">> ELSE <<>>

\* load_exceptions(task_id) -> set of dates
load_exceptions(task_id) ==
    {e.exception_date : e \in {x \in exceptions : x.task_id = task_id}}

\* The rows of a bag as a list, each row as often as the bag holds it, in the
\* order of scheduled_at.
RECURSIVE sort_rows(_)
sort_rows(rows) ==
    IF rows = EmptyBag THEN <<>>
    ELSE LET first == CHOOSE r \in BagToSet(rows) :
                          \A o \in BagToSet(rows) : r.scheduled_at <= o.scheduled_at
         IN  <<first>> \o sort_rows(rows (-) SetToBag({first}))

\* occurrences_in without the window: every row of the task is selected.
occurrences_in_any_window(rows, task_id, w) ==
    LET wanted == {r \in BagToSet(rows) : r.task_id = task_id}
    IN  sort_rows([r \in wanted |-> CopiesIn(r, rows)])

\* The rows of a table that belong to a task and lie in a window, in order.
occurrences_in(rows, task_id, w) ==
    LET wanted == {r \in BagToSet(rows) :
                      r.task_id = task_id /\ in_window(r.scheduled_at, w)}
    IN  sort_rows([r \in wanted |-> CopiesIn(r, rows)])

\* load_occurrences(task_id, window) -> ordered list of TaskOccurrence
load_occurrences(task_id, w) == occurrences_in(occurrences, task_id, w)

----------------------------------------------------------------------------
(* Exception/override resolver and reconciliation engine.                  *)

\* resolve(candidate_timestamps, exceptions, existing_occurrences): a candidate
\* on an excepted date is dropped; one with a persisted row is that row; any
\* other is a new pending occurrence.
RECURSIVE resolve(_, _, _, _)
resolve(task_id, candidates, excepted, existing) ==
    IF candidates = <<>> THEN <<>>
    ELSE LET ts == Head(candidates)
             at == {i \in 1..Len(existing) : existing[i].scheduled_at = ts}
             rest == resolve(task_id, Tail(candidates), excepted, existing)
         IN  IF date_of(ts) \in excepted THEN rest
             ELSE IF at /= {}
                  THEN <<existing[CHOOSE i \in at : \A j \in at : i <= j]>> \o rest
                  ELSE <<TaskOccurrence(task_id, ts, "pending", None)>> \o rest

\* The semantically invalid rules (InvalidRuleError).
invalid_rule(r) ==
    \/ r.interval < 1
    \/ (r.frequency = "WEEKLY" /\ ~truthy_list(r.days_of_week))
    \/ (IsSome(r.until_date) /\ IsSome(r.count))
    \/ (IsSome(r.count) /\ Get(r.count) < 1)

\* The rule's candidates in the window: decode, validate, expand.  A task
\* without a rule generates nothing.
candidates_of(task, w) ==
    IF task.recurrence_rule = None THEN Ok(<<>>)
    ELSE only({IF ~d.ok THEN Raise("MalformedRuleError")
               ELSE IF invalid_rule(d.value) \/ task.recurrence_start = None
                    THEN Raise("InvalidRuleError")
                    ELSE Ok(expand(d.value, Get(task.recurrence_start), w)) :
               d \in {from_rrule_string(Get(task.recurrence_rule))}})

\* The effective occurrences of a task in a window, for a table of rows.
effective_on(rows, task_id, w) ==
    only({IF ~c.ok THEN c
          ELSE Ok(resolve(task_id, c.value, load_exceptions(task_id), existing)) :
          c \in {candidates_of(Get(tasks[task_id]), w)},
          existing \in {occurrences_in(rows, task_id, w)}})

\* The effective occurrences of a task in a window.
effective_occurrences(task_id, w) == effective_on(occurrences, task_id, w)

Mutation(op, occ) == [op |-> op, occ |-> occ]

\* inserts_of without the look at the persisted rows: every effective
\* occurrence is inserted.
RECURSIVE inserts_of_all(_, _)
inserts_of_all(effective, persisted) ==
    IF effective = <<>> THEN <<>>
    ELSE <<Mutation("insert", [Head(effective) EXCEPT !.status = "pending",
                                                      !.completed_at = None])>>
         \o inserts_of_all(Tail(effective), persisted)

\* An effective occurrence with no persisted row is inserted.
RECURSIVE inserts_of(_, _)
inserts_of(effective, persisted) ==
    IF effective = <<>> THEN <<>>
    ELSE (IF \E i \in 1..Len(persisted) :
                 persisted[i].scheduled_at = Head(effective).scheduled_at
          THEN <<>> ELSE <<Mutation("insert", Head(effective))>>)
         \o inserts_of(Tail(effective), persisted)

\* removals_of without the look at the flag: a completed row that is no longer
\* expected is flagged on every run.
RECURSIVE removals_of_reflag(_, _)
removals_of_reflag(persisted, expected) ==
    IF persisted = <<>> THEN <<>>
    ELSE LET r == Head(persisted)
         IN  (IF r.scheduled_at \in expected THEN <<>>
              ELSE IF is_completed(r)
                   THEN <<Mutation("update", [r EXCEPT !.orphaned = TRUE])>>
                   ELSE <<Mutation("delete", r)>>)
             \o removals_of_reflag(Tail(persisted), expected)

\* removals_of that rebuilds the rows still expected: each is deleted and
\* inserted again as a new pending occurrence.
RECURSIVE removals_of_rebuild(_, _)
removals_of_rebuild(persisted, expected) ==
    IF persisted = <<>> THEN <<>>
    ELSE LET r == Head(persisted)
         IN  (IF r.scheduled_at \in expected
              THEN <<Mutation("delete", r),
                     Mutation("insert", TaskOccurrence(r.task_id, r.scheduled_at,
                                                       "pending", None))>>
              ELSE IF is_completed(r)
                   THEN (IF r.orphaned THEN <<>>
                         ELSE <<Mutation("update", [r EXCEPT !.orphaned = TRUE])>>)
                   ELSE <<Mutation("delete", r)>>)
             \o removals_of_rebuild(Tail(persisted), expected)

\* A persisted row that is no longer expected: deleted, or flagged when completed.
RECURSIVE removals_of(_, _)
removals_of(persisted, expected) ==
    IF persisted = <<>> THEN <<>>
    ELSE LET r == Head(persisted)
         IN  (IF r.scheduled_at \in expected THEN <<>>
              ELSE IF is_completed(r)
                   THEN (IF r.orphaned THEN <<>>
                         ELSE <<Mutation("update", [r EXCEPT !.orphaned = TRUE])>>)
                   ELSE <<Mutation("delete", r)>>)
             \o removals_of(Tail(persisted), expected)

\* The mutation list of a task and a window for a table of rows, or the
\* rule's error.
reconcile_on(rows, task_id, w) ==
    only({IF ~eff.ok THEN eff
          ELSE Ok(inserts_of(eff.value, persisted)
                  \o removals_of(persisted, {eff.value[i].scheduled_at :
                                                i \in 1..Len(eff.value)})) :
          eff \in {effective_on(rows, task_id, w)},
          persisted \in {occurrences_in(rows, task_id, w)}})

\* reconcile(task, rule, window) on the persisted rows.
reconcile(task_id, w) == reconcile_on(occurrences, task_id, w)

\* The storage collaborator applies a mutation list to the rows as one unit.
\* An update carries the row with its flag set and replaces the unflagged row.
RECURSIVE apply_mutations(_, _)
apply_mutations(rows, ms) ==
    IF ms = <<>> THEN rows
    ELSE LET m == Head(ms)
         IN  CASE m.op = "insert" ->
                    apply_mutations(rows (+) SetToBag({m.occ}), Tail(ms))
               [] m.op = "update" ->
                    apply_mutations((rows (-) SetToBag({[m.occ EXCEPT !.orphaned = FALSE]}))
                                    (+) SetToBag({m.occ}), Tail(ms))
               [] m.op = "delete" ->
                    apply_mutations(rows (-) SetToBag({m.occ}), Tail(ms))

\* Python truthiness of an Optional[str].
truthy_str(o) == IsSome(o) /\ Get(o) /= ""

\* effective_title that never looks at the override.
effective_title_of_parent(self, parent_task) ==
    IF IsSome(parent_task) THEN Get(parent_task).title ELSE ""

\* TaskOccurrence.effective_title, with parent_task as an Optional.
effective_title(self, parent_task) ==
    IF truthy_str(self.override_title) THEN Get(self.override_title)
    ELSE IF IsSome(parent_task) THEN Get(parent_task).title
    ELSE ""

\* TaskOccurrence.effective_due_at
effective_due_at(self) ==
    IF IsSome(self.override_due_at) THEN Get(self.override_due_at)
    ELSE self.scheduled_at

\* A resolver call that stores the occurrences it synthesizes.
resolve_call_materializing(rows, task_id, title, w) ==
    only({IF ~eff.ok THEN [rows |-> rows, result |-> eff]
          ELSE [rows |-> apply_mutations(rows, inserts_of(eff.value,
                                                      occurrences_in(rows, task_id, w))),
                result |-> Ok([i \in 1..Len(eff.value) |->
                                  [occ |-> eff.value[i],
                                   effective_title |->
                                       effective_title(eff.value[i], Some([title |-> title])),
                                   effective_due_at |-> effective_due_at(eff.value[i])]])] :
          eff \in {effective_on(rows, task_id, w)}})

\* One call of the resolver for a task and a window on a table of rows: the
\* rows after the call and the list returned, every effective occurrence with
\* its effective title and time.
resolve_call(rows, task_id, title, w) ==
    only({IF ~eff.ok THEN [rows |-> rows, result |-> eff]
          ELSE [rows |-> rows,
                result |-> Ok([i \in 1..Len(eff.value) |->
                                  [occ |-> eff.value[i],
                                   effective_title |->
                                       effective_title(eff.value[i], Some([title |-> title])),
                                   effective_due_at |-> effective_due_at(eff.value[i])]])] :
          eff \in {effective_on(rows, task_id, w)}})

\* A reconciliation a worker has computed and not yet applied: the task, the
\* window, the snapshot of the rule and exceptions it was computed from, the
\* mutation list, and whether a part of the list has been applied already.
Reconciliation(task_id, w, task, excepted, mutations) ==
    [task_id |-> task_id, window |-> w, task |-> task, excepted |-> excepted,
     mutations |-> mutations, applied |-> FALSE]

\* may_begin without the serialization: a worker starts a reconciliation of a
\* task whatever is in flight.
may_begin_always(fl, task_id) == TRUE

\* Reconciliation is serialized per task: a reconciliation of a task starts
\* only when none of that task is in flight.
may_begin(fl, task_id) ==
    \A j \in DOMAIN fl : IsSome(fl[j]) => Get(fl[j]).task_id /= task_id

\* apply_step that applies the mutations one at a time: the first one is
\* applied, the others are left for later steps.
apply_step_one_by_one(rows, ms) ==
    IF ms = <<>> THEN [rows |-> rows, rest |-> <<>>]
    ELSE [rows |-> apply_mutations(rows, <<Head(ms)>>), rest |-> Tail(ms)]

\* One step of the storage collaborator on a mutation list: the whole list is
\* applied as one unit, nothing is left.
apply_step(rows, ms) == [rows |-> apply_mutations(rows, ms), rest |-> <<>>]

\* The rows of a table that belong to a task, with their copies.
rows_of_task(rows, task_id) ==
    [r \in {x \in BagToSet(rows) : x.task_id = task_id} |-> CopiesIn(r, rows)]

\* A reconciliation run that stops at the first task whose rule raises: the
\* tasks after it are not reconciled.
RECURSIVE run_on_abort(_, _, _)
run_on_abort(rows, ids, w) ==
    IF ids = <<>> THEN [rows |-> rows, results |-> <<>>]
    ELSE only({IF ~res.ok
               THEN [rows |-> rows,
                     results |-> <<[task_id |-> Head(ids), result |-> res]>>]
               ELSE only({[rows |-> rest.rows,
                           results |-> <<[task_id |-> Head(ids), result |-> res]>>
                                       \o rest.results] :
                          rest \in {run_on_abort(apply_mutations(rows, res.value),
                                                 Tail(ids), w)}}) :
               res \in {reconcile_on(rows, Head(ids), w)}})

\* One reconciliation run over the tasks ids, in order: each task's result is
\* its mutation list or its rule's error; a list is applied as one unit, an
\* error leaves the rows as they are and the run goes on with the next task.
RECURSIVE run_on(_, _, _)
run_on(rows, ids, w) ==
    IF ids = <<>> THEN [rows |-> rows, results |-> <<>>]
    ELSE only({only({[rows |-> rest.rows,
                      results |-> <<[task_id |-> Head(ids), result |-> res]>>
                                  \o rest.results] :
                     rest \in {run_on(IF res.ok THEN apply_mutations(rows, res.value)
                                      ELSE rows,
                                      Tail(ids), w)}}) :
               res \in {reconcile_on(rows, Head(ids), w)}})

\* The ids of the stored tasks, in id order (ids are given out from 1 on).
stored_ids ==
    [i \in 1..Cardinality({t \in DOMAIN tasks : IsSome(tasks[t])}) |-> i]

----------------------------------------------------------------------------
(* Codec specification: a rule object is encoded, the text is decoded.     *)

\* Rule objects the codec is run on.  days_of_week = [] is what
\* from_rrule_string itself returns for a BYDAY token none of whose codes is a
\* weekday (models.py:94), so the program holds such rule objects.
CodecIntervals == {1, 2, 12}
CodecDays == {None, Some(<<>>), Some(<<0, 2>>), Some(<<2, 0>>), Some(<<6>>)}
CodecUntil == {date(2024, 1, 5), date(2024, 12, 31)}
CodecCounts == {1, 10, 12}
CodecEnds ==
    {[until_date |-> None, count |-> None]}
    \cup {[until_date |-> Some(d), count |-> None] : d \in CodecUntil}
    \cup {[until_date |-> None, count |-> Some(n)] : n \in CodecCounts}

CodecRules ==
    {RecurrenceRule(f, i, dow, e.until_date, e.count) :
        f \in RecurrenceFrequency, i \in CodecIntervals, dow \in CodecDays, e \in CodecEnds}

\* The valid rules of the data model: no validation error (for a rule created
\* on 2024-01-01) and at most one of until_date / count.
ValidRule(r) ==
    /\ validate_recurrence_rule(r, date(2024, 1, 1)) = <<>>
    /\ ~(IsSome(r.until_date) /\ IsSome(r.count))
    /\ (IsSome(r.count) => Get(r.count) >= 1)

Window(ws, we) == [start |-> ws, end |-> we]
NoWindow == Window(None, None)

TaskIds == {1, 2}

\* The workers that run reconciliations.
Workers == {1, 2}

CodecIdle ==
    rule = None /\ text = None /\ decoded = None /\ loaded = None /\ rule_errors = None
ExpandIdle == form = None /\ window = NoWindow /\ preview = None /\ expanded = None
StoreIdle ==
    /\ now = 0
    /\ tasks = [t \in TaskIds |-> None]
    /\ exceptions = {}
    /\ occurrences = EmptyBag
    /\ user_deleted = {}
ResolveIdle ==
    /\ titles = [t \in TaskIds |-> ""]
    /\ task_status = [t \in TaskIds |-> "pending"]
    /\ resolved = None
EngineIdle ==
    /\ run_results = None
    /\ inflight = [k \in Workers |-> None]
    /\ observed = None
    /\ iter = None
WindowIdle ==
    /\ db_tasks = {}
    /\ next_id = 1
    /\ current_tasks = <<>>
    /\ widget_tasks = <<>>
    /\ same_list = TRUE
    /\ status_count = 0
RemindIdle ==
    /\ reminder_lock = None
    /\ active_reminders = [t \in TaskIds |-> None]
    /\ stack = [th \in Workers |-> <<>>]
    /\ shown = {}

CodecInit ==
    /\ rule \in {r \in CodecRules : ValidRule(r)}
    /\ text = None
    /\ decoded = None
    /\ loaded = None
    /\ rule_errors = None
    /\ ExpandIdle
    /\ StoreIdle
    /\ EngineIdle
    /\ ResolveIdle
    /\ RemindIdle
    /\ WindowIdle

\* text = rule.to_rrule_string()
Encode ==
    /\ text = None
    /\ text' = Some(to_rrule_string(rule))
    /\ UNCHANGED <<rule, decoded, loaded, rule_errors>>
    /\ UNCHANGED expand_vars
    /\ UNCHANGED store_vars
    /\ UNCHANGED engine_vars
    /\ UNCHANGED resolve_vars
    /\ UNCHANGED remind_vars
    /\ UNCHANGED window_vars

\* decoded = RecurrenceRule.from_rrule_string(text)
Decode ==
    /\ IsSome(text)
    /\ decoded = None
    /\ decoded' = Some(from_rrule_string(Get(text)))
    /\ UNCHANGED <<rule, text, loaded, rule_errors>>
    /\ UNCHANGED expand_vars
    /\ UNCHANGED store_vars
    /\ UNCHANGED engine_vars
    /\ UNCHANGED resolve_vars
    /\ UNCHANGED remind_vars
    /\ UNCHANGED window_vars

CodecNext == Encode \/ Decode

SpecCodec == CodecInit /\ [][CodecNext]_vars

\* C1: for every valid rule, decoding the text produced by encoding it yields a
\* rule equal to the original in every field.
C1_RoundTrip ==
    IsSome(decoded) => Get(decoded) = Ok(rule)

----------------------------------------------------------------------------
(* Decoding specification: a stored RRULE text is decoded, and a task row  *)
(* holding it is read.                                                     *)

\* The tokens a text may hold for each key; <<>> stands for no token.
ParseFreq ==
    {<<>>} \cup {<<Token("FREQ", f)>> : f \in RecurrenceFrequency \cup {"HOURLY", "weekly"}}
ParseInterval == {<<>>, <<Token("INTERVAL", str(2))>>}
ParseByday == {<<>>, <<Token("BYDAY", <<"MO", "WE">>)>>, <<Token("BYDAY", <<"XX">>)>>}
ParseUntil ==
    {<<>>, <<Token("UNTIL", strftime_Ymd(date(2024, 1, 5)))>>,
     <<Token("UNTIL", <<2, 0, 2, 4, 0, 2, 3, 0>>)>>}
ParseCount == {<<>>, <<Token("COUNT", str(3))>>}

\* The text decoded: the tokens in the encoder's order or in the opposite one.
ParseInit ==
    /\ rule = None
    /\ \E f \in ParseFreq, i \in ParseInterval, b \in ParseByday,
          u \in ParseUntil, c \in ParseCount, forward \in BOOLEAN :
           text = Some(IF forward THEN f \o i \o b \o u \o c
                       ELSE c \o u \o b \o i \o f)
    /\ decoded = None
    /\ loaded = None
    /\ rule_errors = None
    /\ ExpandIdle
    /\ StoreIdle
    /\ EngineIdle
    /\ ResolveIdle
    /\ RemindIdle
    /\ WindowIdle

\* Database._row_to_task: the rule of the Task built from a row whose
\* recurrence_rule column holds the text; an empty text gives no rule.
RowToTask ==
    /\ IsSome(text)
    /\ loaded = None
    /\ loaded' = Some(IF Get(text) = <<>> THEN Ok(None)
                      ELSE IF from_rrule_string(Get(text)).ok
                           THEN Ok(Some(from_rrule_string(Get(text)).value))
                           ELSE from_rrule_string(Get(text)))
    /\ UNCHANGED <<rule, text, decoded, rule_errors>>
    /\ UNCHANGED expand_vars
    /\ UNCHANGED store_vars
    /\ UNCHANGED engine_vars
    /\ UNCHANGED resolve_vars
    /\ UNCHANGED remind_vars
    /\ UNCHANGED window_vars

ParseNext == Decode \/ RowToTask

SpecParse == ParseInit /\ [][ParseNext]_vars

\* C13: decoding a text that has no FREQ token, or whose FREQ value is none of
\* DAILY, WEEKLY, MONTHLY, YEARLY, fails: no rule object is returned.
C13_MalformedFrequency ==
    (IsSome(decoded) /\ (~has_key(Get(text), "FREQ")
                          \/ dict_get(Get(text), "FREQ") \notin RecurrenceFrequency))
        => ~Get(decoded).ok

\* C14: decoding the text FREQ=WEEKLY fails, and so does reading a task row
\* that holds it: no WEEKLY rule without weekdays is returned.
C14_WeeklyNeedsByday ==
    (IsSome(text) /\ Get(text) = <<Token("FREQ", "WEEKLY")>>) =>
        /\ IsSome(decoded) => ~Get(decoded).ok
        /\ IsSome(loaded) => ~Get(loaded).ok

----------------------------------------------------------------------------
(* Validation specification: a rule object, as the editor or the decoder   *)
(* builds it, is validated and encoded.                                    *)

\* Rule objects from_rrule_string returns: INTERVAL=0, COUNT=0, a text with
\* both UNTIL and COUNT, a BYDAY token without a weekday code.
AnyIntervals == {0, 1, 2}
AnyDays == {None, Some(<<>>), Some(<<0, 2>>)}
AnyUntil == {None, Some(date(2024, 1, 5))}
AnyCounts == {None, Some(0), Some(1), Some(3)}

Today == date(2024, 1, 1)

ValidateInit ==
    /\ rule \in {RecurrenceRule(f, i, dow, u, c) :
                    f \in RecurrenceFrequency, i \in AnyIntervals, dow \in AnyDays,
                    u \in AnyUntil, c \in AnyCounts}
    /\ text = None
    /\ decoded = None
    /\ loaded = None
    /\ rule_errors = None
    /\ ExpandIdle
    /\ StoreIdle
    /\ EngineIdle
    /\ ResolveIdle
    /\ RemindIdle
    /\ WindowIdle

\* errors = validate_recurrence_rule(rule)
Validate ==
    /\ rule_errors = None
    /\ rule_errors' = Some(validate_recurrence_rule(rule, Today))
    /\ UNCHANGED <<rule, text, decoded, loaded>>
    /\ UNCHANGED expand_vars
    /\ UNCHANGED store_vars
    /\ UNCHANGED engine_vars
    /\ UNCHANGED resolve_vars
    /\ UNCHANGED remind_vars
    /\ UNCHANGED window_vars

ValidateNext == Validate \/ Encode

SpecValidate == ValidateInit /\ [][ValidateNext]_vars

\* C15: validation rejects every rule that has interval < 1, or is WEEKLY
\* without a weekday, or has both until_date and count, or has a count below 1.
C15_ValidationRejects ==
    (IsSome(rule_errors) /\ invalid_rule(rule)) => Get(rule_errors) /= <<>>

\* C20: the encoded text never holds both an UNTIL and a COUNT token, holds an
\* INTERVAL token exactly when interval is not 1, and a BYDAY token exactly
\* when days_of_week is set.
C20_TokenRules ==
    IsSome(text) =>
        /\ ~(has_key(Get(text), "UNTIL") /\ has_key(Get(text), "COUNT"))
        /\ has_key(Get(text), "INTERVAL") <=> rule.interval /= 1
        /\ has_key(Get(text), "BYDAY") <=> IsSome(rule.days_of_week)

----------------------------------------------------------------------------
(* Expansion specification: the editor previews a rule, and the rule is    *)
(* expanded over a window.                                                 *)

ExpandEnds ==
    {[end_type |-> 0, end_date |-> date(2024, 1, 31), end_count |-> 10],
     [end_type |-> 1, end_date |-> date(2024, 1, 20), end_count |-> 10],
     [end_type |-> 1, end_date |-> date(2024, 3, 31), end_count |-> 10],
     [end_type |-> 2, end_date |-> date(2024, 1, 31), end_count |-> 1],
     [end_type |-> 2, end_date |-> date(2024, 1, 31), end_count |-> 4],
     [end_type |-> 2, end_date |-> date(2024, 1, 31), end_count |-> 12]}
ExpandDays == {{}, {0, 2}, {4}}
ExpandStarts ==
    {[date |-> date(2024, 1, 1), has_time |-> FALSE, time |-> 9 * 3600],
     [date |-> date(2024, 1, 3), has_time |-> TRUE, time |-> 14 * 3600 + 1800],
     [date |-> date(2024, 1, 31), has_time |-> FALSE, time |-> 9 * 3600],
     [date |-> date(2024, 2, 29), has_time |-> TRUE, time |-> 0],
     [date |-> date(2024, 1, 6), has_time |-> TRUE, time |-> 23 * 3600 + 59 * 60]}
ExpandForms ==
    {Form(TRUE, f, i, days, e.end_type, e.end_date, e.end_count, st.date, st.has_time, st.time) :
        f \in 0..3, i \in {1, 2}, days \in ExpandDays, e \in ExpandEnds, st \in ExpandStarts}
ExpandWindows ==
    {NoWindow,
     Window(Some(combine(date(2024, 1, 3), 0)), Some(combine(date(2024, 1, 10), 9 * 3600))),
     Window(Some(combine(date(2024, 2, 1), 0)), None),
     Window(None, Some(combine(date(2024, 1, 8), 86399)))}

ExpandInit ==
    /\ form \in {Some(f) : f \in ExpandForms}
    /\ window \in ExpandWindows
    /\ preview = None
    /\ expanded = None
    /\ CodecIdle
    /\ StoreIdle
    /\ EngineIdle
    /\ ResolveIdle
    /\ RemindIdle
    /\ WindowIdle

\* update_preview(): the preview list is refilled from the form's rule.
UpdatePreview ==
    /\ IsSome(form)
    /\ Get(form).repeat
    /\ preview = None
    /\ preview' = Some(preview_dates(Get(create_recurrence_rule(Get(form))),
                                     start_datetime(Get(form))))
    /\ UNCHANGED <<form, window, expanded>>
    /\ UNCHANGED codec_vars
    /\ UNCHANGED store_vars
    /\ UNCHANGED engine_vars
    /\ UNCHANGED resolve_vars
    /\ UNCHANGED remind_vars
    /\ UNCHANGED window_vars

\* expand(rule, anchor, window_start, window_end, max_results) on the form's rule.
Expand ==
    /\ IsSome(form)
    /\ Get(form).repeat
    /\ expanded = None
    /\ expanded' = Some(expand(Get(create_recurrence_rule(Get(form))),
                               start_datetime(Get(form)), window))
    /\ UNCHANGED <<form, window, preview>>
    /\ UNCHANGED codec_vars
    /\ UNCHANGED store_vars
    /\ UNCHANGED engine_vars
    /\ UNCHANGED resolve_vars
    /\ UNCHANGED remind_vars
    /\ UNCHANGED window_vars

ExpandNext == UpdatePreview \/ Expand

SpecExpand == ExpandInit /\ [][ExpandNext]_vars

FormRule == Get(create_recurrence_rule(Get(form)))
FormAnchor == start_datetime(Get(form))

StrictlyIncreasing(s) == \A i \in 1..(Len(s) - 1) : s[i] < s[i + 1]
NotBefore(s, anchor) == \A i \in 1..Len(s) : s[i] >= anchor

\* C9: for every valid rule, anchor and window, the sequence expand returns is
\* strictly increasing and every timestamp in it is at or after the anchor.
C9_ExpandIncreasing ==
    /\ (IsSome(expanded) /\ ValidRule(FormRule)) =>
            (StrictlyIncreasing(Get(expanded)) /\ NotBefore(Get(expanded), FormAnchor))
    /\ (IsSome(preview) /\ ValidRule(FormRule)) =>
            (StrictlyIncreasing(Get(preview)) /\ NotBefore(Get(preview), FormAnchor))

\* A weekly rule on Mondays and Wednesdays anchored on a Wednesday afternoon has
\* been expanded over a bounded window into several dates: the Monday of the
\* anchor's week is a candidate that lies before the anchor.
C9_Witness ==
    /\ IsSome(expanded)
    /\ IsSome(window.start)
    /\ ValidRule(FormRule)
    /\ FormRule.frequency = "WEEKLY"
    /\ FormRule.days_of_week = Some(<<0, 2>>)
    /\ weekday(date_of(FormAnchor)) = 2
    /\ Len(Get(expanded)) >= 2

\* The first RefCount dates the form's rule generates from the anchor when its
\* own end condition is left out.
Generated ==
    rrule([freq |-> FormRule.frequency, interval |-> FormRule.interval,
           dtstart |-> FormAnchor,
           byweekday |-> FormRule.days_of_week,
           until |-> None, count |-> Some(RefCount)])

\* C10: for a rule with count = N, expand over any window returns exactly those
\* of the first N generated occurrences that lie inside the window.
C10_CountWindow ==
    (IsSome(expanded) /\ ValidRule(FormRule) /\ IsSome(FormRule.count)) =>
        Get(expanded) = select_window(Take(Generated, Get(FormRule.count)), window)

\* C10 as amended: of the first min(N, 10) generated occurrences, expand returns
\* exactly those inside the window; none of them lies beyond the N-th.
C10_CountWindowCapped ==
    (IsSome(expanded) /\ ValidRule(FormRule) /\ IsSome(FormRule.count)) =>
        LET n == Get(FormRule.count)
        IN  /\ Get(expanded) = select_window(Take(Generated, Min(n, PreviewLimit)), window)
            /\ \A i \in 1..Len(Get(expanded)) :
                   \E k \in 1..Min(n, Len(Generated)) : Get(expanded)[i] = Generated[k]
            /\ (n <= Len(Generated) /\ IsSome(window.start)
                   /\ Get(window.start) > Generated[n]) => Get(expanded) = <<>>

\* A rule with count = 4 was expanded over a window that starts after the
\* anchor: the result is not empty, does not start at the anchor and has fewer
\* than 4 dates, the rest of the budget having been used before the window.
C10_Witness ==
    /\ IsSome(expanded)
    /\ ValidRule(FormRule)
    /\ FormRule.count = Some(4)
    /\ IsSome(window.start)
    /\ Get(window.start) > FormAnchor
    /\ Get(expanded) /= <<>>
    /\ Len(Get(expanded)) < 4
    /\ Get(expanded)[Len(Get(expanded))] = Generated[4]

\* A timestamp a WEEKLY rule may emit: on a selected weekday, at the anchor's
\* time of day, in a week a multiple of interval weeks after the anchor's week,
\* not before the anchor.
WeeklySlot(ts) ==
    LET d == date_of(ts)
        a == date_of(FormAnchor)
        days == Get(FormRule.days_of_week)
    IN  /\ weekday(d) \in {days[i] : i \in 1..Len(days)}
        /\ time_of(ts) = time_of(FormAnchor)
        /\ ((d - weekday(d)) - (a - weekday(a))) % (7 * FormRule.interval) = 0
        /\ ts >= FormAnchor

\* C11: for a WEEKLY rule every emitted timestamp is on a selected weekday, at
\* the anchor's time of day, in a week a multiple of interval weeks after the
\* anchor's week and not before the anchor; the selected weekdays are emitted
\* in date order with none left out; Monday and Wednesday, interval 1, anchor
\* Monday 2024-01-01 09:00, count 4 gives 2024-01-01, -03, -08, -10 at 09:00.
C11_Weekly ==
    (ValidRule(FormRule) /\ FormRule.frequency = "WEEKLY") =>
        /\ IsSome(preview) =>
               LET p == Get(preview)
               IN  /\ \A i \in 1..Len(p) : WeeklySlot(p[i])
                   /\ StrictlyIncreasing(p)
                   /\ p /= <<>> =>
                          \A d \in date_of(FormAnchor)..date_of(p[Len(p)]) :
                              WeeklySlot(combine(d, time_of(FormAnchor)))
                                  => \E i \in 1..Len(p) :
                                         p[i] = combine(d, time_of(FormAnchor))
                   /\ (/\ FormRule.days_of_week = Some(<<0, 2>>)
                       /\ FormRule.interval = 1
                       /\ FormRule.count = Some(4)
                       /\ FormAnchor = combine(date(2024, 1, 1), 9 * 3600))
                          => p = <<combine(date(2024, 1, 1), 9 * 3600),
                                   combine(date(2024, 1, 3), 9 * 3600),
                                   combine(date(2024, 1, 8), 9 * 3600),
                                   combine(date(2024, 1, 10), 9 * 3600)>>
        /\ IsSome(expanded) =>
               /\ \A i \in 1..Len(Get(expanded)) : WeeklySlot(Get(expanded)[i])
               /\ StrictlyIncreasing(Get(expanded))

\* A rule on Monday and Wednesday of every second week, anchored on Wednesday
\* 2024-01-03 14:30, was previewed: the Monday of the anchor's week and the
\* whole following week are left out.
C11_Witness ==
    /\ IsSome(preview)
    /\ ValidRule(FormRule)
    /\ FormRule.frequency = "WEEKLY"
    /\ FormRule.days_of_week = Some(<<0, 2>>)
    /\ FormRule.interval = 2
    /\ FormAnchor = combine(date(2024, 1, 3), 14 * 3600 + 1800)
    /\ Len(Get(preview)) >= 3
    /\ Get(preview)[1] = FormAnchor
    /\ Get(preview)[2] = combine(date(2024, 1, 15), 14 * 3600 + 1800)

\* The day n months after day d, with the day of the month clamped to the
\* length of the target month.
ClampedMonths(d, n) ==
    LET mi == (month_of(d) - 1) + n
        y == year_of(d) + (mi \div 12)
        m == (mi % 12) + 1
    IN  date(y, m, Min(day_of(d), days_in_month(y, m)))

\* C12: for a MONTHLY (YEARLY) rule the k-th occurrence lies k * interval
\* months (years) after the anchor, on the anchor's day of the month clamped
\* to the length of the target month.
C12_MonthlyClamp ==
    (IsSome(preview) /\ ValidRule(FormRule) /\ FormRule.frequency \in {"MONTHLY", "YEARLY"}) =>
        LET step == IF FormRule.frequency = "MONTHLY" THEN FormRule.interval
                    ELSE 12 * FormRule.interval
        IN  \A k \in 1..Len(Get(preview)) :
                Get(preview)[k] = combine(ClampedMonths(date_of(FormAnchor), (k - 1) * step),
                                          time_of(FormAnchor))

\* The occurrences the rule of the form has on the calendar date d: the
\* candidates of the periods that start on or before d, at the anchor's time of
\* day, that are not before the anchor.
OccurrencesOn(kw, d) ==
    {combine(d, time_of(kw.dtstart)) :
        k \in {j \in 0..(d - date_of(kw.dtstart)) :
                  period_start(kw, j) <= d /\ d \in Range(period_dates(kw, j))
                  /\ combine(d, time_of(kw.dtstart)) >= kw.dtstart}}

\* C22: for a rule with until_date, the occurrence on the calendar date
\* until_date is generated whatever the anchor's time of day is, no generated
\* occurrence has a later calendar date, and the preview lists the first ten
\* of the generated occurrences.
C22_UntilInclusive ==
    (IsSome(preview) /\ ValidRule(FormRule) /\ IsSome(FormRule.until_date)) =>
        \E kw \in {rrule_kwargs(FormRule, FormAnchor)} : \E all \in {rrule(kw)} :
            /\ \A i \in 1..Len(all) : date_of(all[i]) <= Get(FormRule.until_date)
            /\ OccurrencesOn(kw, Get(FormRule.until_date)) \subseteq Range(all)
            /\ Get(preview) = Take(all, PreviewLimit)

\* Every second day from 2024-01-06 23:59 until 2024-01-20: the preview ends
\* with the occurrence on the end date, one minute before midnight.
C22_Witness ==
    /\ IsSome(preview)
    /\ FormRule.frequency = "DAILY" /\ FormRule.interval = 2
    /\ FormRule.until_date = Some(date(2024, 1, 20))
    /\ FormAnchor = combine(date(2024, 1, 6), 23 * 3600 + 59 * 60)
    /\ Len(Get(preview)) = 8
    /\ Get(preview)[8] = combine(date(2024, 1, 20), 23 * 3600 + 59 * 60)

----------------------------------------------------------------------------
(* Store specification: tasks are saved from the editor, exceptions are    *)
(* added, occurrences are completed and deleted by the user, and tasks are *)
(* reconciled over windows.                                                *)

ReconNows == {combine(date(2024, 1, 1), 8 * 3600)}

\* Editor inputs: weekly on Monday and Wednesday, 4 times and 2 times; every
\* seventh day until 2024-01-08; weekly without a weekday; a rule without a
\* time of day; no repetition.
ReconForms ==
    {Form(TRUE, 1, 1, {0, 2}, 2, date(2024, 1, 31), 4, date(2024, 1, 1), TRUE, 9 * 3600),
     Form(TRUE, 1, 1, {0, 2}, 2, date(2024, 1, 31), 2, date(2024, 1, 1), TRUE, 9 * 3600),
     Form(TRUE, 0, 7, {}, 1, date(2024, 1, 8), 10, date(2024, 1, 1), TRUE, 9 * 3600),
     Form(TRUE, 1, 1, {}, 0, date(2024, 1, 31), 10, date(2024, 1, 1), TRUE, 9 * 3600),
     Form(TRUE, 0, 1, {}, 2, date(2024, 1, 31), 4, date(2024, 1, 1), FALSE, 9 * 3600),
     Form(FALSE, 0, 1, {}, 0, date(2024, 1, 31), 10, date(2024, 1, 1), TRUE, 9 * 3600)}

\* Horizon windows: the first week, the second week, and from the first
\* Wednesday's occurrence to the second Monday's, both included.
ReconWindows ==
    {Window(Some(combine(date(2024, 1, 1), 0)), Some(combine(date(2024, 1, 7), 86399))),
     Window(Some(combine(date(2024, 1, 8), 0)), Some(combine(date(2024, 1, 14), 86399))),
     Window(Some(combine(date(2024, 1, 3), 9 * 3600)), Some(combine(date(2024, 1, 8), 9 * 3600)))}

ExceptionDates == {date(2024, 1, 3)}

\* The dates whose occurrences the user completes and reopens.
ToggleDates == {date(2024, 1, 3), date(2024, 1, 10)}

ReconInit ==
    /\ now \in ReconNows
    /\ tasks = [t \in TaskIds |-> None]
    /\ exceptions = {}
    /\ occurrences = EmptyBag
    /\ user_deleted = {}
    /\ CodecIdle
    /\ ExpandIdle
    /\ EngineIdle
    /\ ResolveIdle
    /\ RemindIdle
    /\ WindowIdle

\* TaskEditorDialog.save_task and MainWindow.on_task_saved for a Task: a new
\* task gets the next id, an existing one is updated.  A save the validation
\* rejects stores nothing.
SaveTask(t, f) ==
    /\ \A u \in TaskIds : u < t => IsSome(tasks[u])
    /\ LET due_at == IF f.has_time THEN Some(combine(f.date, f.time)) ELSE None
           r == create_recurrence_rule(f)
           start == IF IsSome(r) THEN due_at
                    ELSE IF IsSome(tasks[t]) THEN Get(tasks[t]).recurrence_start
                    ELSE None
           errors == validate_task(due_at, now)
                     \o (IF IsSome(r) THEN validate_recurrence_rule(Get(r), date_of(now))
                         ELSE <<>>)
       IN  /\ errors = <<>>
           /\ tasks' = [tasks EXCEPT ![t] =
                           Some(StoredTask(IF IsSome(r) THEN Some(to_rrule_string(Get(r)))
                                           ELSE None, start))]
    /\ UNCHANGED <<now, exceptions, occurrences, user_deleted>>
    /\ UNCHANGED codec_vars
    /\ UNCHANGED expand_vars
    /\ UNCHANGED engine_vars
    /\ UNCHANGED resolve_vars
    /\ UNCHANGED remind_vars
    /\ UNCHANGED window_vars

\* A RecurrenceException row is stored for a task and a date.
AddException(t, d) ==
    /\ IsSome(tasks[t])
    /\ RecurrenceException(t, d) \notin exceptions
    /\ exceptions' = exceptions \cup {RecurrenceException(t, d)}
    /\ UNCHANGED <<now, tasks, occurrences, user_deleted>>
    /\ UNCHANGED codec_vars
    /\ UNCHANGED expand_vars
    /\ UNCHANGED engine_vars
    /\ UNCHANGED resolve_vars
    /\ UNCHANGED remind_vars
    /\ UNCHANGED window_vars

\* MainWindow.on_task_toggled for a TaskOccurrence: the occurrence is marked
\* completed or pending, and its row holds the completion state (the resolver
\* reads it from the persisted row).
ToggleOccurrence(occ, completed) ==
    /\ BagIn(occ, occurrences)
    /\ occurrences' = (occurrences (-) SetToBag({occ}))
                      (+) SetToBag({IF completed THEN mark_completed(occ, now)
                                    ELSE mark_pending(occ)})
    /\ UNCHANGED <<now, tasks, exceptions, user_deleted>>
    /\ UNCHANGED codec_vars
    /\ UNCHANGED expand_vars
    /\ UNCHANGED engine_vars
    /\ UNCHANGED resolve_vars
    /\ UNCHANGED remind_vars
    /\ UNCHANGED window_vars

\* MainWindow.delete_task for a TaskOccurrence the user confirmed: the branch
\* stores nothing, the item leaves the list widget.
DeleteOccurrence(occ) ==
    /\ BagIn(occ, occurrences)
    /\ user_deleted' = user_deleted
                       \cup {RecurrenceException(occ.task_id, date_of(occ.scheduled_at))}
    /\ UNCHANGED <<now, tasks, exceptions, occurrences>>
    /\ UNCHANGED codec_vars
    /\ UNCHANGED expand_vars
    /\ UNCHANGED engine_vars
    /\ UNCHANGED resolve_vars
    /\ UNCHANGED remind_vars
    /\ UNCHANGED window_vars

\* One reconciliation of a task over a window: the mutation list is computed
\* and applied as one unit.  A rule error leaves the rows as they are.
Reconcile(t, w) ==
    /\ IsSome(tasks[t])
    /\ \E res \in {reconcile(t, w)} :
           /\ res.ok
           /\ occurrences' = apply_mutations(occurrences, res.value)
    /\ UNCHANGED <<now, tasks, exceptions, user_deleted>>
    /\ UNCHANGED codec_vars
    /\ UNCHANGED expand_vars
    /\ UNCHANGED engine_vars
    /\ UNCHANGED resolve_vars
    /\ UNCHANGED remind_vars
    /\ UNCHANGED window_vars

\* One reconciliation run over every stored task for a window.
ReconcileRun(w) ==
    /\ stored_ids /= <<>>
    /\ \E run \in {run_on(occurrences, stored_ids, w)} :
           /\ occurrences' = run.rows
           /\ run_results' = Some(run.results)
    /\ UNCHANGED <<now, tasks, exceptions, user_deleted>>
    /\ UNCHANGED <<inflight, observed, iter>>
    /\ UNCHANGED codec_vars
    /\ UNCHANGED expand_vars
    /\ UNCHANGED resolve_vars
    /\ UNCHANGED remind_vars
    /\ UNCHANGED window_vars

\* The second task is saved with one rule (weekly on Monday and Wednesday,
\* 2 times, on the dates the first task has too); the user's other operations
\* are on the first task.
SaveChoices ==
    {<<1, f>> : f \in ReconForms}
    \cup {<<2, Form(TRUE, 1, 1, {0, 2}, 2, date(2024, 1, 31), 2, date(2024, 1, 1), TRUE, 9 * 3600)>>}

UserRows == {o \in BagToSet(occurrences) : o.task_id = 1}

ReconNext ==
    \/ \E c \in SaveChoices : SaveTask(c[1], c[2])
    \/ \E d \in ExceptionDates : AddException(1, d)
    \/ \E occ \in {o \in UserRows : date_of(o.scheduled_at) \in ToggleDates}, c \in BOOLEAN :
           ToggleOccurrence(occ, c)
    \/ \E occ \in {o \in UserRows : date_of(o.scheduled_at) \in ExceptionDates} :
           DeleteOccurrence(occ)
    \/ \E t \in TaskIds, w \in ReconWindows : Reconcile(t, w)

SpecRecon == ReconInit /\ [][ReconNext]_vars

RowsOf(t) == {r \in BagToSet(occurrences) : r.task_id = t}
Stamps(rows) == {r.scheduled_at : r \in rows}

WeeklyMoWe(n) ==
    Some(to_rrule_string(RecurrenceRule("WEEKLY", 1, Some(<<0, 2>>), None, Some(n))))
Jan(d) == combine(date(2024, 1, d), 9 * 3600)

\* The expected timestamps of a task in a window: the candidates of the stored
\* rule that do not fall on an excepted date.
ExpectedIn(t, w) ==
    {ts \in Range(candidates_of(Get(tasks[t]), w).value) :
        date_of(ts) \notin load_exceptions(t)}

\* A step that is the reconciliation of task t over window w.
ReconcileStep(t, w) ==
    /\ UNCHANGED <<tasks, exceptions, user_deleted>>
    /\ Reconcile(t, w)

\* C2: no two persisted occurrence rows of one task share a scheduled_at:
\* (task_id, scheduled_at) identifies at most one row.
C2_UniqueOccurrence ==
    \A r1 \in BagToSet(occurrences) :
        /\ CopiesIn(r1, occurrences) = 1
        /\ \A r2 \in BagToSet(occurrences) :
               (r1.task_id = r2.task_id /\ r1.scheduled_at = r2.scheduled_at) => r1 = r2

\* After a rule edit, an exception and reconciliations over several windows the
\* first task holds rows in both weeks, one of them completed, and the second
\* task holds a row at a timestamp the first task holds too.
C2_Witness ==
    /\ RecurrenceException(1, date(2024, 1, 3)) \in exceptions
    /\ {Jan(1), Jan(8), Jan(10)} \subseteq Stamps(RowsOf(1))
    /\ \E r \in RowsOf(1) : is_completed(r)
    /\ Jan(1) \in Stamps(RowsOf(2))

\* C3: reconciliation emits no delete for a completed occurrence; a completed
\* row whose timestamp left the expected set stays persisted with its status
\* and completion time and is flagged as orphaned, every other completed row
\* stays as it is.
C3_CompletedKept ==
    [][\A t \in TaskIds, w \in ReconWindows :
          ReconcileStep(t, w) =>
              /\ \A m \in Range(reconcile(t, w).value) :
                     m.op = "delete" => m.occ.status /= "completed"
              /\ \A r \in BagToSet(occurrences) :
                     r.status = "completed" =>
                         IF /\ r.task_id = t
                            /\ in_window(r.scheduled_at, w)
                            /\ r.scheduled_at \notin ExpectedIn(t, w)
                         THEN BagIn([r EXCEPT !.orphaned = TRUE], occurrences')
                         ELSE BagIn(r, occurrences')]_vars

\* The rule was shortened from 4 to 2 occurrences after the fourth occurrence
\* had been completed: the completed row is persisted and flagged.
C3_Witness ==
    /\ IsSome(tasks[1])
    /\ Get(tasks[1]).recurrence_rule = WeeklyMoWe(2)
    /\ \E r \in RowsOf(1) :
           /\ r.scheduled_at = Jan(10)
           /\ is_completed(r)
           /\ r.completed_at = Some(now)
           /\ r.orphaned

\* C4: a reconciliation of the same task over the same window right after a
\* reconciliation (on the rows it left, with the same rule and exceptions)
\* returns the empty mutation list.
C4_Idempotent ==
    [][\A t \in TaskIds, w \in ReconWindows :
          ReconcileStep(t, w) => reconcile_on(occurrences', t, w) = Ok(<<>>)]_vars

\* A completed row is flagged as orphaned inside a window whose expected set
\* does not hold its timestamp, and reconciling over that window returns the
\* empty list.
C4_Witness ==
    \E w \in ReconWindows : \E r \in RowsOf(1) :
        /\ is_completed(r)
        /\ r.orphaned
        /\ in_window(r.scheduled_at, w)
        /\ reconcile(1, w) = Ok(<<>>)
        /\ r.scheduled_at \notin ExpectedIn(1, w)
        /\ ExpectedIn(1, w) /= {}

C6_WindowMoveKeeps ==
    [][\A t \in TaskIds, w \in ReconWindows :
          ReconcileStep(t, w) =>
              \A r \in RowsOf(t) :
                  r.scheduled_at \notin Stamps(RowsOf(t)')
                      => r.scheduled_at \notin ExpectedIn(t, NoWindow)]_vars

\* The first task repeats 4 times without an exception and holds a pending
\* row at each of its four dates: no window holds all four, so rows of an
\* earlier reconciliation outlived one over another window.
C6_Witness ==
    /\ IsSome(tasks[1])
    /\ Get(tasks[1]).recurrence_rule = WeeklyMoWe(4)
    /\ load_exceptions(1) = {}
    /\ Stamps({r \in RowsOf(1) : r.status = "pending"}) = {Jan(1), Jan(3), Jan(8), Jan(10)}
    /\ \A w \in ReconWindows : \E r \in RowsOf(1) : ~in_window(r.scheduled_at, w)

\* C7: every occurrence the user deleted has a RecurrenceException for its
\* task and date.
C7_DeletionCreatesException ==
    user_deleted \subseteq exceptions

\* C8: the effective list of a task over a window holds no occurrence on an
\* excepted date and every other candidate once; with the weekly rule on Monday
\* and Wednesday, count 4, anchored on 2024-01-01 09:00 and an exception on
\* 2024-01-03 the list is 2024-01-01, 2024-01-08, 2024-01-10.
C8_EffectiveList ==
    \A t \in TaskIds :
        IsSome(tasks[t]) =>
            \A w \in ReconWindows \cup {NoWindow} :
                \A c \in {candidates_of(Get(tasks[t]), w)} :
                    c.ok =>
                        \A eff \in {effective_occurrences(t, w).value} :
                            /\ \A i \in 1..Len(eff) :
                                   /\ date_of(eff[i].scheduled_at) \notin load_exceptions(t)
                                   /\ eff[i].scheduled_at \in Range(c.value)
                            /\ \A ts \in Range(c.value) :
                                   date_of(ts) \notin load_exceptions(t) =>
                                       Cardinality({i \in 1..Len(eff) :
                                                       eff[i].scheduled_at = ts}) = 1
                            /\ (/\ w = NoWindow
                                /\ Get(tasks[t]).recurrence_rule = WeeklyMoWe(4)
                                /\ Get(tasks[t]).recurrence_start = Some(Jan(1))
                                /\ load_exceptions(t) = {date(2024, 1, 3)})
                                   => [i \in 1..Len(eff) |-> eff[i].scheduled_at]
                                          = <<Jan(1), Jan(8), Jan(10)>>

\* The first task has the weekly rule with count 4 and the exception on
\* 2024-01-03, and its materialized rows are those of 2024-01-01, 2024-01-08
\* and 2024-01-10, all pending.
C8_Witness ==
    /\ IsSome(tasks[1])
    /\ Get(tasks[1]).recurrence_rule = WeeklyMoWe(4)
    /\ Get(tasks[1]).recurrence_start = Some(Jan(1))
    /\ load_exceptions(1) = {date(2024, 1, 3)}
    /\ Len(effective_occurrences(1, NoWindow).value) = 3
    /\ Stamps(RowsOf(1)) = {Jan(1), Jan(8), Jan(10)}
    /\ \A r \in RowsOf(1) : r.status = "pending"

----------------------------------------------------------------------------
(* Run specification: tasks are saved, exceptions are added, and every     *)
(* stored task is reconciled in one run over a window.                     *)

\* The first task is saved weekly on Monday and Wednesday 4 times, or daily 4
\* times without a time of day (the stored task then has a rule and no
\* anchor); the second task weekly on Monday and Wednesday 2 times.
RunChoices ==
    {<<1, Form(TRUE, 1, 1, {0, 2}, 2, date(2024, 1, 31), 4, date(2024, 1, 1), TRUE, 9 * 3600)>>,
     <<1, Form(TRUE, 0, 1, {}, 2, date(2024, 1, 31), 4, date(2024, 1, 1), FALSE, 9 * 3600)>>,
     <<2, Form(TRUE, 1, 1, {0, 2}, 2, date(2024, 1, 31), 2, date(2024, 1, 1), TRUE, 9 * 3600)>>}

RunNext ==
    \/ \E c \in RunChoices : SaveTask(c[1], c[2])
    \/ \E t \in TaskIds, d \in ExceptionDates : AddException(t, d)
    \/ \E w \in ReconWindows : ReconcileRun(w)

SpecRun == ReconInit /\ [][RunNext]_vars

\* A step that is a reconciliation run over window w.
ReconcileRunStep(w) ==
    /\ UNCHANGED <<tasks, exceptions, user_deleted>>
    /\ ReconcileRun(w)

RecoverableErrors == {"MalformedRuleError", "InvalidRuleError"}

----------------------------------------------------------------------------
(* Concurrency specification: two workers reconcile tasks; each computes   *)
(* its mutation list from the rows, rule and exceptions it reads and       *)
(* applies it later, while the editor saves rules, exceptions are added    *)
(* and a reader reads the occurrence rows.                                 *)

\* The first task is saved weekly on Monday and Wednesday 4 times or 2 times,
\* the second task weekly on Monday and Wednesday 2 times.
ConcChoices ==
    {<<1, Form(TRUE, 1, 1, {0, 2}, 2, date(2024, 1, 31), 4, date(2024, 1, 1), TRUE, 9 * 3600)>>,
     <<1, Form(TRUE, 1, 1, {0, 2}, 2, date(2024, 1, 31), 2, date(2024, 1, 1), TRUE, 9 * 3600)>>,
     <<2, Form(TRUE, 1, 1, {0, 2}, 2, date(2024, 1, 31), 2, date(2024, 1, 1), TRUE, 9 * 3600)>>}

\* The first week and the second week.
ConcWindows ==
    {Window(Some(combine(date(2024, 1, 1), 0)), Some(combine(date(2024, 1, 7), 86399))),
     Window(Some(combine(date(2024, 1, 8), 0)), Some(combine(date(2024, 1, 14), 86399)))}

\* A worker reads a task's rule, exceptions and rows and computes the
\* mutation list.  A rule error is returned and leaves nothing in flight.
Begin(k, t, w) ==
    /\ inflight[k] = None
    /\ IsSome(tasks[t])
    /\ may_begin(inflight, t)
    /\ \E res \in {reconcile(t, w)} :
           /\ res.ok
           /\ inflight' = [inflight EXCEPT ![k] =
                              Some(Reconciliation(t, w, Get(tasks[t]), load_exceptions(t),
                                                  res.value))]
    /\ UNCHANGED store_vars
    /\ UNCHANGED <<run_results, observed, iter>>
    /\ UNCHANGED codec_vars
    /\ UNCHANGED expand_vars
    /\ UNCHANGED resolve_vars
    /\ UNCHANGED remind_vars
    /\ UNCHANGED window_vars

\* The storage collaborator applies a worker's mutation list.
Apply(k) ==
    /\ IsSome(inflight[k])
    /\ \E st \in {apply_step(occurrences, Get(inflight[k]).mutations)} :
           /\ occurrences' = st.rows
           /\ inflight' = [inflight EXCEPT ![k] =
                              IF st.rest = <<>> THEN None
                              ELSE Some([Get(inflight[k]) EXCEPT !.mutations = st.rest,
                                                                 !.applied = TRUE])]
    /\ UNCHANGED <<now, tasks, exceptions, user_deleted>>
    /\ UNCHANGED <<run_results, observed, iter>>
    /\ UNCHANGED codec_vars
    /\ UNCHANGED expand_vars
    /\ UNCHANGED resolve_vars
    /\ UNCHANGED remind_vars
    /\ UNCHANGED window_vars

\* A reader loads the occurrence rows: it sees the rows as they are, and so
\* sees a part of a mutation list exactly when some list is applied in part.
Read ==
    /\ observed' = Some([rows |-> Cardinality(BagToSet(occurrences)),
                         partial |-> \E k \in Workers :
                                        IsSome(inflight[k]) /\ Get(inflight[k]).applied])
    /\ UNCHANGED store_vars
    /\ UNCHANGED <<run_results, inflight, iter>>
    /\ UNCHANGED codec_vars
    /\ UNCHANGED expand_vars
    /\ UNCHANGED resolve_vars
    /\ UNCHANGED remind_vars
    /\ UNCHANGED window_vars

ConcNext ==
    \/ \E c \in ConcChoices : SaveTask(c[1], c[2])
    \/ \E d \in ExceptionDates : AddException(1, d)
    \/ \E k \in Workers, t \in TaskIds, w \in ConcWindows : Begin(k, t, w)
    \/ \E k \in Workers : Apply(k)
    \/ Read

SpecConc == ReconInit /\ [][ConcNext]_vars

\* A step in which worker k's list is applied, the list having been computed
\* from the rule and exceptions the task has now.
FreshApplyStep(k) ==
    /\ UNCHANGED <<tasks, exceptions, user_deleted>>
    /\ Apply(k)
    /\ Get(inflight[k]).task = Get(tasks[Get(inflight[k]).task_id])
    /\ Get(inflight[k]).excepted = load_exceptions(Get(inflight[k]).task_id)

NoDuplicate ==
    \A r \in BagToSet(occurrences) :
        /\ CopiesIn(r, occurrences) = 1
        /\ \A o \in BagToSet(occurrences) :
               (o.task_id = r.task_id /\ o.scheduled_at = r.scheduled_at) => o = r

----------------------------------------------------------------------------
(* Termination specification: an expansion is followed period by period.   *)

\* expand's check of its rule, made before anything is generated.
expand_error(r) ==
    IF r.frequency \notin RecurrenceFrequency \/ invalid_rule(r)
    THEN Some("InvalidRuleError") ELSE None

\* The rules expanded: with a count, with an end date, with neither, for every
\* frequency; and rules with interval 0 and with a frequency that is none of
\* the four.
TermRules ==
    {RecurrenceRule("DAILY", i, None, e[1], e[2]) :
        i \in {1, 2}, e \in {<<None, Some(3)>>, <<Some(date(2024, 2, 10)), None>>}}
    \cup {RecurrenceRule("WEEKLY", i, Some(<<0, 2>>), e[1], e[2]) :
             i \in {1, 2}, e \in {<<None, Some(3)>>, <<Some(date(2024, 3, 10)), None>>}}
    \cup {RecurrenceRule("MONTHLY", i, None, e[1], e[2]) :
             i \in {1, 2}, e \in {<<None, Some(3)>>, <<Some(date(2024, 6, 30)), None>>}}
    \cup {RecurrenceRule("YEARLY", 1, None, e[1], e[2]) :
             e \in {<<None, Some(2)>>, <<Some(date(2024, 12, 31)), None>>}}
    \cup {RecurrenceRule("DAILY", 1, None, None, None),
          RecurrenceRule("WEEKLY", 1, Some(<<0, 2>>), None, None),
          RecurrenceRule("MONTHLY", 1, None, None, None)}
    \cup {RecurrenceRule(f, 0, None, e[1], e[2]) :
             f \in {"DAILY", "MONTHLY"},
             e \in {<<None, Some(3)>>, <<Some(date(2024, 3, 10)), None>>, <<None, None>>}}
    \cup {RecurrenceRule("HOURLY", 1, None, None, Some(3)),
          RecurrenceRule("WEEKLY", 1, None, None, Some(3))}

TermAnchors ==
    {combine(date(2024, 1, 31), 9 * 3600), combine(date(2024, 3, 31), 14 * 3600 + 1800)}

TermInit ==
    /\ rule \in {Some(r) : r \in TermRules}
    /\ text = None /\ decoded = None /\ loaded = None /\ rule_errors = None
    /\ ExpandIdle
    /\ StoreIdle
    /\ EngineIdle
    /\ ResolveIdle
    /\ RemindIdle
    /\ WindowIdle

\* The expansion starts: an invalid rule fails before anything is generated,
\* a valid one gets its rrule object.
StartExpand ==
    /\ iter = None
    /\ \E a \in TermAnchors :
           iter' = IF IsSome(expand_error(Get(rule)))
                   THEN Some([kw |-> None, k |-> 0, out |-> <<>>, done |-> TRUE,
                              reason |-> Get(expand_error(Get(rule)))])
                   ELSE Some([kw |-> Some(rrule_kwargs(Get(rule), a)), k |-> 0,
                              out |-> <<>>, done |-> FALSE, reason |-> "running"])
    /\ UNCHANGED <<run_results, inflight, observed>>
    /\ UNCHANGED codec_vars
    /\ UNCHANGED expand_vars
    /\ UNCHANGED store_vars
    /\ UNCHANGED resolve_vars
    /\ UNCHANGED remind_vars
    /\ UNCHANGED window_vars

\* Why the iteration ended in a period: the count is used up, a date lies
\* after until, or the calendar has no further date.
end_reason(kw, cands, out) ==
    IF IsSome(kw.count) /\ Len(out) >= Get(kw.count) THEN "count"
    ELSE IF IsSome(kw.until)
            /\ \E i \in 1..Len(cands) :
                   cands[i] <= LastDay /\ combine(cands[i], time_of(kw.dtstart)) > Get(kw.until)
         THEN "until"
         ELSE "calendar"

\* One period of the iteration of list(rrule(**rrule_kwargs)): the state of
\* the iteration after the period it.k.
rrule_step(it) ==
    only({IF period_start(kw, it.k) > LastDay
          THEN [it EXCEPT !.done = TRUE, !.reason = "calendar"]
          ELSE only({only({IF r.done
                           THEN [it EXCEPT !.out = r.out, !.done = TRUE,
                                           !.reason = end_reason(kw, cands, r.out)]
                           ELSE [it EXCEPT !.out = r.out, !.k = it.k + 1] :
                           r \in {rrule_emit(kw, cands, it.out)}}) :
                     cands \in {period_dates(kw, it.k)}}) :
          kw \in {Get(it.kw)}})

\* The iteration goes on by one period.
StepExpand ==
    /\ IsSome(iter)
    /\ ~Get(iter).done
    /\ Get(iter).k < MaxPeriods
    /\ \E nxt \in {rrule_step(Get(iter))} : iter' = Some(nxt)
    /\ UNCHANGED <<run_results, inflight, observed>>
    /\ UNCHANGED codec_vars
    /\ UNCHANGED expand_vars
    /\ UNCHANGED store_vars
    /\ UNCHANGED resolve_vars
    /\ UNCHANGED remind_vars
    /\ UNCHANGED window_vars

TermNext == StartExpand \/ StepExpand

SpecTerm == TermInit /\ [][TermNext]_vars /\ WF_vars(TermNext)

\* The expansion has ended: for an invalid rule with InvalidRuleError and
\* nothing generated, for a valid one because its count or its end date is
\* used up, with the dates list(rrule) gives.
Halted ==
    /\ IsSome(iter)
    /\ Get(iter).done
    /\ IF IsSome(expand_error(Get(rule)))
       THEN Get(iter).reason = "InvalidRuleError" /\ Get(iter).out = <<>> /\ Get(iter).k = 0
       ELSE /\ Get(iter).reason \in {"count", "until"}
            /\ Get(iter).out = rrule(Get(Get(iter).kw))

----------------------------------------------------------------------------
(* Token order specification: a text is decoded, and the same text is      *)
(* handed over with its tokens in another order or with a token of an      *)
(* unrecognized key added.                                                 *)

OrderFreq == {<<>>} \cup {<<Token("FREQ", f)>> : f \in {"DAILY", "WEEKLY", "HOURLY"}}

\* Tokens whose keys from_rrule_string does not read.
UnrecognizedTokens == {Token("WKST", "MO"), Token("BYMONTH", str(1))}
RecognizedKeys == {"FREQ", "INTERVAL", "BYDAY", "UNTIL", "COUNT"}

\* The text in the encoder's order, every key at most once.
OrderInit ==
    /\ rule = None
    /\ \E f \in OrderFreq, i \in ParseInterval,
          b \in {<<>>, <<Token("BYDAY", <<"MO", "WE">>)>>},
          u \in ParseUntil, c \in ParseCount :
           text = Some(f \o i \o b \o u \o c)
    /\ decoded = None
    /\ loaded = None
    /\ rule_errors = None
    /\ ExpandIdle
    /\ StoreIdle
    /\ EngineIdle
    /\ ResolveIdle
    /\ RemindIdle
    /\ WindowIdle

\* The text with two neighbouring tokens exchanged.
Reorder(i) ==
    /\ IsSome(text)
    /\ i \in 1..(Len(Get(text)) - 1)
    /\ text' = Some([Get(text) EXCEPT ![i] = Get(text)[i + 1], ![i + 1] = Get(text)[i]])
    /\ UNCHANGED <<rule, decoded, loaded, rule_errors>>
    /\ UNCHANGED expand_vars
    /\ UNCHANGED store_vars
    /\ UNCHANGED engine_vars
    /\ UNCHANGED resolve_vars
    /\ UNCHANGED remind_vars
    /\ UNCHANGED window_vars

\* The text with a token of an unrecognized key put in after its first p tokens.
AddUnrecognized(tok, p) ==
    /\ IsSome(text)
    /\ p \in 0..Len(Get(text))
    /\ \A i \in 1..Len(Get(text)) : Get(text)[i].key \in RecognizedKeys
    /\ text' = Some(SubSeq(Get(text), 1, p) \o <<tok>>
                    \o SubSeq(Get(text), p + 1, Len(Get(text))))
    /\ UNCHANGED <<rule, decoded, loaded, rule_errors>>
    /\ UNCHANGED expand_vars
    /\ UNCHANGED store_vars
    /\ UNCHANGED engine_vars
    /\ UNCHANGED resolve_vars
    /\ UNCHANGED remind_vars
    /\ UNCHANGED window_vars

OrderNext ==
    \/ Decode
    \/ \E i \in 1..5 : Reorder(i)
    \/ \E tok \in UnrecognizedTokens, p \in 0..5 : AddUnrecognized(tok, p)

SpecOrder == OrderInit /\ [][OrderNext]_vars

----------------------------------------------------------------------------
(* Resolver specification: a recurring task has occurrences materialized,  *)
(* completed and edited, an exception is added, and the resolver is called *)
(* for a window; its caller drops the list before the next operation.      *)

ResolveTitles == {"Gym", "Swim"}

\* Rule edits of the task: weekly on Monday and Wednesday 4 times, and every
\* seventh day until 2024-01-08.
ResolveForms ==
    {Form(TRUE, 1, 1, {0, 2}, 2, date(2024, 1, 31), 4, date(2024, 1, 1), TRUE, 9 * 3600),
     Form(TRUE, 0, 7, {}, 1, date(2024, 1, 8), 10, date(2024, 1, 1), TRUE, 9 * 3600)}

\* The task "Gym", weekly on Monday and Wednesday 4 times from 2024-01-01 09:00.
ResolveInit ==
    /\ now \in ReconNows
    /\ tasks = [t \in TaskIds |-> IF t = 1 THEN Some(StoredTask(WeeklyMoWe(4), Some(Jan(1))))
                                  ELSE None]
    /\ titles = [t \in TaskIds |-> IF t = 1 THEN "Gym" ELSE ""]
    /\ task_status = [t \in TaskIds |-> "pending"]
    /\ exceptions = {}
    /\ occurrences = EmptyBag
    /\ user_deleted = {}
    /\ resolved = None
    /\ CodecIdle
    /\ ExpandIdle
    /\ EngineIdle
    /\ RemindIdle
    /\ WindowIdle

\* TaskEditorDialog.save_task for a TaskOccurrence: the title typed becomes the
\* override unless it is the parent's title; the time typed becomes the
\* override when it differs from scheduled_at.  The row holds the overrides.
EditOccurrence(occ, title, has_time, new_datetime) ==
    /\ BagIn(occ, occurrences)
    /\ title /= ""
    /\ occurrences' = (occurrences (-) SetToBag({occ}))
                      (+) SetToBag({[occ EXCEPT
                             !.override_title = IF title /= titles[occ.task_id]
                                                THEN Some(title) ELSE None,
                             !.override_due_at = IF has_time /\ new_datetime /= occ.scheduled_at
                                                 THEN Some(new_datetime) ELSE @]})
    /\ UNCHANGED <<now, tasks, exceptions, user_deleted>>
    /\ UNCHANGED resolve_vars
    /\ UNCHANGED codec_vars
    /\ UNCHANGED expand_vars
    /\ UNCHANGED engine_vars
    /\ UNCHANGED remind_vars
    /\ UNCHANGED window_vars

\* MainWindow.on_task_toggled for a Task: the task is marked and
\* database.update_task stores it.
ToggleTask(t, completed) ==
    /\ IsSome(tasks[t])
    /\ task_status' = [task_status EXCEPT ![t] = IF completed THEN Task_mark_completed(@)
                                                 ELSE Task_mark_pending(@)]
    /\ UNCHANGED <<titles, resolved>>
    /\ UNCHANGED codec_vars
    /\ UNCHANGED expand_vars
    /\ UNCHANGED store_vars
    /\ UNCHANGED engine_vars
    /\ UNCHANGED remind_vars
    /\ UNCHANGED window_vars

\* The resolver is called for a task and a window.
Resolve(t, w) ==
    /\ IsSome(tasks[t])
    /\ resolved = None
    /\ \E res \in {resolve_call(occurrences, t, titles[t], w)} :
           /\ res.result.ok
           /\ occurrences' = res.rows
           /\ resolved' = Some([task_id |-> t, window |-> w, list |-> res.result.value])
    /\ UNCHANGED <<now, tasks, exceptions, user_deleted, titles, task_status>>
    /\ UNCHANGED codec_vars
    /\ UNCHANGED expand_vars
    /\ UNCHANGED engine_vars
    /\ UNCHANGED remind_vars
    /\ UNCHANGED window_vars

\* The caller is done with the list.
Return ==
    /\ IsSome(resolved)
    /\ resolved' = None
    /\ UNCHANGED <<titles, task_status>>
    /\ UNCHANGED codec_vars
    /\ UNCHANGED expand_vars
    /\ UNCHANGED store_vars
    /\ UNCHANGED engine_vars
    /\ UNCHANGED remind_vars
    /\ UNCHANGED window_vars

ResolveNext ==
    \/ /\ resolved = None
       /\ \/ \E w \in ReconWindows : Reconcile(1, w)
          \/ \E f \in ResolveForms : SaveTask(1, f)
          \/ \E c \in BOOLEAN : ToggleTask(1, c)
          \/ \E d \in ExceptionDates : AddException(1, d)
          \/ \E occ \in {o \in UserRows : date_of(o.scheduled_at) \in ToggleDates},
                c \in BOOLEAN : ToggleOccurrence(occ, c)
          \/ \E occ \in {o \in UserRows : date_of(o.scheduled_at) = date(2024, 1, 8)},
                title \in ResolveTitles, has_time \in BOOLEAN,
                dt \in {Jan(8), combine(date(2024, 1, 8), 18 * 3600)} :
                EditOccurrence(occ, title, has_time, dt)
    \/ \E w \in ReconWindows \cup {NoWindow} : Resolve(1, w)
    \/ Return

SpecResolve == ResolveInit /\ [][ResolveNext]_vars

\* A step in which the resolver returns its list for task t and window w.
ResolveCall(t, w) ==
    /\ resolved = None
    /\ IsSome(resolved')
    /\ Get(resolved').task_id = t
    /\ Get(resolved').window = w

\* C23: in the list the resolver returns, a candidate that is not excepted and
\* has a persisted row at its timestamp is that row, with status, completed_at,
\* override_title and override_due_at as persisted; its effective title is the
\* override when one is set and the parent's title otherwise, its effective
\* time the override when one is set and scheduled_at otherwise.  A candidate
\* without a persisted row is a new pending occurrence.
C23_ResolverKeepsRow ==
    [][\A t \in TaskIds, w \in ReconWindows \cup {NoWindow} :
          ResolveCall(t, w) =>
              \E list \in {Get(resolved').list}, c \in {candidates_of(Get(tasks[t]), w)} :
                  \A ts \in Range(c.value) :
                      date_of(ts) \notin load_exceptions(t) =>
                          \E i \in 1..Len(list) :
                              /\ list[i].occ.scheduled_at = ts
                              /\ IF \E r \in RowsOf(t) : r.scheduled_at = ts
                                 THEN \E r \in RowsOf(t) :
                                        /\ r.scheduled_at = ts
                                        /\ list[i].occ = r
                                        /\ list[i].effective_title =
                                              (IF IsSome(r.override_title)
                                               THEN Get(r.override_title) ELSE titles[t])
                                        /\ list[i].effective_due_at =
                                              (IF IsSome(r.override_due_at)
                                               THEN Get(r.override_due_at) ELSE ts)
                                 ELSE /\ list[i].occ = TaskOccurrence(t, ts, "pending", None)
                                      /\ list[i].effective_title = titles[t]
                                      /\ list[i].effective_due_at = ts]_vars

\* The list returned holds the completed occurrence of 2024-01-03, the
\* occurrence of 2024-01-08 with both overrides, and a new pending occurrence
\* for 2024-01-10, which has no row.
C23_Witness ==
    /\ IsSome(resolved)
    /\ Get(resolved).window = NoWindow
    /\ \E list \in {Get(resolved).list} :
           /\ Len(list) = 4
           /\ list[2].occ.status = "completed"
           /\ list[3].occ.override_title = Some("Swim")
           /\ list[3].effective_title = "Swim"
           /\ list[3].effective_due_at = combine(date(2024, 1, 8), 18 * 3600)
           /\ list[4].occ.status = "pending"
    /\ Jan(10) \notin Stamps(RowsOf(1))
    /\ Jan(8) \in Stamps(RowsOf(1))

C25_ExpectedRowsUntouched ==
    [][\A t \in TaskIds, w \in ReconWindows :
          ReconcileStep(t, w) =>
              \E ms \in {reconcile(t, w).value}, exp \in {ExpectedIn(t, w)} :
                  \A r \in RowsOf(t) :
                      (in_window(r.scheduled_at, w) /\ r.scheduled_at \in exp) =>
                          /\ \A m \in Range(ms) : m.occ.scheduled_at /= r.scheduled_at
                          /\ CopiesIn(r, occurrences') = CopiesIn(r, occurrences)]_vars

\* The rule was edited to every seventh day until 2024-01-08 and 2024-01-03
\* was excepted: the completed row of 2024-01-10 is flagged, the row of
\* 2024-01-03 is gone, and the row of 2024-01-08, still expected, holds its
\* overrides.
C25_Witness ==
    /\ IsSome(tasks[1])
    /\ Get(tasks[1]).recurrence_rule =
           Some(to_rrule_string(RecurrenceRule("DAILY", 7, None, Some(date(2024, 1, 8)), None)))
    /\ RecurrenceException(1, date(2024, 1, 3)) \in exceptions
    /\ Jan(1) \in Stamps(RowsOf(1))
    /\ Jan(3) \notin Stamps(RowsOf(1))
    /\ \E r \in RowsOf(1) :
           /\ r.scheduled_at = Jan(8)
           /\ r.override_title = Some("Swim")
           /\ IsSome(r.override_due_at)
    /\ \E r \in RowsOf(1) : r.scheduled_at = Jan(10) /\ is_completed(r) /\ r.orphaned

\* A step in which the occurrence occ is marked completed or pending.
ToggleStep(occ, completed) ==
    /\ BagIn(occ, occurrences)
    /\ UNCHANGED <<tasks, exceptions, user_deleted, resolved>>
    /\ occurrences' /= occurrences
    /\ ToggleOccurrence(occ, completed)

\* C26: marking an occurrence completed or pending changes only that
\* occurrence's status and completed_at: the parent task's status and title
\* and every other row are as before, the marked row keeps its timestamp,
\* overrides and flag; and every row has completed_at set exactly when its
\* status is completed.
C26_MarkOnlyThatOccurrence ==
    /\ [](\A r \in BagToSet(occurrences) : IsSome(r.completed_at) <=> r.status = "completed")
    /\ [][\A occ \in BagToSet(occurrences), c \in BOOLEAN :
             ToggleStep(occ, c) =>
                 /\ UNCHANGED <<task_status, titles, tasks>>
                 /\ \A r \in BagToSet(occurrences) :
                        r /= occ => CopiesIn(r, occurrences') = CopiesIn(r, occurrences)
                 /\ \E after \in BagToSet(occurrences') :
                        /\ after \notin BagToSet(occurrences)
                        /\ after = [occ EXCEPT
                                      !.status = IF c THEN "completed" ELSE "pending",
                                      !.completed_at = IF c THEN Some(now) ELSE None]
                        /\ BagCardinality(occurrences') = BagCardinality(occurrences)]_vars

\* The parent task is completed while its occurrence of 2024-01-03 was
\* completed and reopened (it is pending without a completion time) and the
\* occurrence of 2024-01-10 is completed; the edited occurrence of 2024-01-08
\* is pending.
C26_Witness ==
    /\ task_status[1] = "completed"
    /\ \E r \in RowsOf(1) :
           r.scheduled_at = Jan(3) /\ r.status = "pending" /\ r.completed_at = None
    /\ \E r \in RowsOf(1) :
           r.scheduled_at = Jan(10) /\ r.status = "completed" /\ r.completed_at = Some(now)
    /\ \E r \in RowsOf(1) :
           r.scheduled_at = Jan(8) /\ r.status = "pending" /\ IsSome(r.override_title)

----------------------------------------------------------------------------
(* The anchor of a stored rule, under the reconciliation specification.    *)

\* C27: every stored task whose recurrence_rule is set has a recurrence_start
\* timestamp, also when the editor was given a date and no time of day.
C27_AnchorStored ==
    \A t \in TaskIds :
        (IsSome(tasks[t]) /\ IsSome(Get(tasks[t]).recurrence_rule)) =>
            IsSome(Get(tasks[t]).recurrence_start)

----------------------------------------------------------------------------
(* Reminder specification: threads call the methods of one                 *)
(* ReminderScheduler.  reminder_lock is a threading.Lock: a thread that    *)
(* asks for it waits until no thread holds it, the holder included.        *)

\* A call in progress: the method, its task, whether its reminder time is in
\* the future, and the place the call has reached.
Frame(op, task_id, future, at) ==
    [op |-> op, task_id |-> task_id, future |-> future, at |-> at]

\* The methods that start by entering "with self.reminder_lock".
LockedMethods ==
    {"schedule_reminder", "trigger_reminder", "cancel_reminder",
     "cancel_all_reminders", "get_active_reminders_count"}

ReminderMethods == LockedMethods \cup {"reschedule_reminders_for_task"}

Top(th) == stack[th][Len(stack[th])]
Pop(th) == [stack EXCEPT ![th] = SubSeq(@, 1, Len(@) - 1)]
\* The call on top moves to another place.
Goto(th, at) == [stack EXCEPT ![th][Len(stack[th])].at = at]
\* The call on top moves to another place and calls a method.
CallFrom(th, at, op) ==
    [stack EXCEPT ![th] = SubSeq(@, 1, Len(@) - 1)
                          \o <<[Top(th) EXCEPT !.at = at],
                               Frame(op, Top(th).task_id, Top(th).future,
                                     IF op \in LockedMethods THEN "acquire" ELSE "start")>>]

RemindInit ==
    /\ reminder_lock = None
    /\ active_reminders = [t \in TaskIds |-> None]
    /\ stack = [th \in Workers |-> <<>>]
    /\ shown = {}
    /\ CodecIdle
    /\ ExpandIdle
    /\ StoreIdle
    /\ ResolveIdle
    /\ EngineIdle
    /\ WindowIdle

\* A thread that is in no call calls a method of the scheduler.
Call(th, op, task_id, future) ==
    /\ stack[th] = <<>>
    /\ stack' = [stack EXCEPT ![th] =
                    <<Frame(op, task_id, future,
                            IF op \in LockedMethods THEN "acquire" ELSE "start")>>]
    /\ UNCHANGED <<reminder_lock, active_reminders, shown>>
    /\ UNCHANGED codec_vars
    /\ UNCHANGED expand_vars
    /\ UNCHANGED store_vars
    /\ UNCHANGED engine_vars
    /\ UNCHANGED resolve_vars
    /\ UNCHANGED window_vars

\* "with self.reminder_lock": the lock is taken when no thread holds it.
Acquire(th) ==
    /\ stack[th] /= <<>>
    /\ Top(th).at = "acquire"
    /\ reminder_lock = None
    /\ reminder_lock' = Some(th)
    /\ stack' = Goto(th, "locked")
    /\ UNCHANGED <<active_reminders, shown>>
    /\ UNCHANGED codec_vars
    /\ UNCHANGED expand_vars
    /\ UNCHANGED store_vars
    /\ UNCHANGED engine_vars
    /\ UNCHANGED resolve_vars
    /\ UNCHANGED window_vars

\* The next piece of the call on top of a thread's stack, up to its next call,
\* its next wait for the lock, or its return.
Run(th) ==
    /\ stack[th] /= <<>>
    /\ Top(th).at /= "acquire"
    /\ \E f \in {Top(th)} :
         CASE f.op = "schedule_reminder" /\ f.at = "locked" ->
                \* inside the lock: self.cancel_reminder(task_id)
                /\ stack' = CallFrom(th, "after_cancel", "cancel_reminder")
                /\ UNCHANGED <<reminder_lock, active_reminders, shown>>
           [] f.op = "schedule_reminder" /\ f.at = "after_cancel" ->
                \* reminder_time <= now returns; otherwise the timer is started
                \* and stored; the lock is released on the way out
                /\ active_reminders' = IF f.future
                                       THEN [active_reminders EXCEPT ![f.task_id] = Some("timer")]
                                       ELSE active_reminders
                /\ reminder_lock' = None
                /\ stack' = Pop(th)
                /\ UNCHANGED shown
           [] f.op = "cancel_reminder" /\ f.at = "locked" ->
                /\ active_reminders' = [active_reminders EXCEPT ![f.task_id] = None]
                /\ reminder_lock' = None
                /\ stack' = Pop(th)
                /\ UNCHANGED shown
           [] f.op = "cancel_all_reminders" /\ f.at = "locked" ->
                /\ active_reminders' = [t \in TaskIds |-> None]
                /\ reminder_lock' = None
                /\ stack' = Pop(th)
                /\ UNCHANGED shown
           [] f.op = "get_active_reminders_count" /\ f.at = "locked" ->
                /\ reminder_lock' = None
                /\ stack' = Pop(th)
                /\ UNCHANGED <<active_reminders, shown>>
           [] f.op = "trigger_reminder" /\ f.at = "locked" ->
                /\ active_reminders' = [active_reminders EXCEPT ![f.task_id] = None]
                /\ reminder_lock' = None
                /\ stack' = Goto(th, "show")
                /\ UNCHANGED shown
           [] f.op = "trigger_reminder" /\ f.at = "show" ->
                /\ shown' = shown \cup {f.task_id}
                /\ stack' = Pop(th)
                /\ UNCHANGED <<reminder_lock, active_reminders>>
           [] f.op = "reschedule_reminders_for_task" /\ f.at = "start" ->
                /\ stack' = CallFrom(th, "after_cancel", "cancel_reminder")
                /\ UNCHANGED <<reminder_lock, active_reminders, shown>>
           [] f.op = "reschedule_reminders_for_task" /\ f.at = "after_cancel" ->
                \* reminder_time > datetime.now(): schedule_reminder is called
                /\ stack' = IF f.future THEN CallFrom(th, "after_schedule", "schedule_reminder")
                            ELSE Pop(th)
                /\ UNCHANGED <<reminder_lock, active_reminders, shown>>
           [] f.op = "reschedule_reminders_for_task" /\ f.at = "after_schedule" ->
                /\ stack' = Pop(th)
                /\ UNCHANGED <<reminder_lock, active_reminders, shown>>
    /\ UNCHANGED codec_vars
    /\ UNCHANGED expand_vars
    /\ UNCHANGED store_vars
    /\ UNCHANGED engine_vars
    /\ UNCHANGED resolve_vars
    /\ UNCHANGED window_vars

RemindNext ==
    \/ \E th \in Workers, op \in ReminderMethods, t \in TaskIds, future \in BOOLEAN :
           Call(th, op, t, future)
    \/ \E th \in Workers : Acquire(th)
    \/ \E th \in Workers : Run(th)

SpecRemind == RemindInit /\ [][RemindNext]_vars

\* A thread is inside schedule_reminder.
InSchedule(th) ==
    \E i \in 1..Len(stack[th]) : stack[th][i].op = "schedule_reminder"

\* C28: a thread inside schedule_reminder never waits for reminder_lock while
\* it holds the lock itself (such a thread waits forever, and the lock is
\* never released for a later call).
C28_ScheduleReturns ==
    \A th \in Workers :
        InSchedule(th) => ~(reminder_lock = Some(th) /\ Top(th).at = "acquire")

\* No timer is ever stored: schedule_reminder never gets past its call of
\* cancel_reminder.
NoReminderStored == \A t \in TaskIds : active_reminders[t] = None

----------------------------------------------------------------------------
(* Main window specification: the tasks of the current list are loaded,    *)
(* created, updated and deleted.  A Python list is an object: after        *)
(* set_tasks(tasks) the widget and the window hold the same list until one *)
(* of them binds another.                                                  *)

\* Database.get_tasks_by_list_id: the stored tasks of the list, a new list.
RECURSIVE get_tasks_by_list_id(_)
get_tasks_by_list_id(ids) ==
    IF ids = {} THEN <<>>
    ELSE LET first == CHOOSE t \in ids : \A u \in ids : t <= u
         IN  <<first>> \o get_tasks_by_list_id(ids \ {first})

\* TaskListWidget.remove_task: the list without the task.
without_task(list, t) == SelectSeq(list, LAMBDA u : u /= t)

WindowInit ==
    /\ db_tasks = {}
    /\ next_id = 1
    /\ current_tasks = <<>>
    /\ widget_tasks = <<>>
    /\ same_list = TRUE
    /\ status_count = 0
    /\ CodecIdle
    /\ ExpandIdle
    /\ StoreIdle
    /\ ResolveIdle
    /\ EngineIdle
    /\ RemindIdle

\* MainWindow.load_current_date_tasks: current_tasks = tasks,
\* task_list_widget.set_tasks(tasks), update_status().
LoadTasks ==
    /\ \E loaded_tasks \in {get_tasks_by_list_id(db_tasks)} :
           /\ current_tasks' = loaded_tasks
           /\ widget_tasks' = loaded_tasks
           /\ status_count' = Len(loaded_tasks)
    /\ same_list' = TRUE
    /\ UNCHANGED <<db_tasks, next_id>>
    /\ UNCHANGED codec_vars
    /\ UNCHANGED expand_vars
    /\ UNCHANGED store_vars
    /\ UNCHANGED engine_vars
    /\ UNCHANGED resolve_vars
    /\ UNCHANGED remind_vars

\* MainWindow.on_task_saved for a new Task: create_task, then
\* task_list_widget.add_task(task) and current_tasks.append(task): two
\* appends, to one list when the widget and the window hold the same one.
SaveNewTask ==
    /\ next_id <= MaxTasks
    /\ db_tasks' = db_tasks \cup {next_id}
    /\ next_id' = next_id + 1
    /\ \E after_add \in {widget_tasks \o <<next_id>>} :
           IF same_list
           THEN /\ widget_tasks' = after_add \o <<next_id>>
                /\ current_tasks' = after_add \o <<next_id>>
           ELSE /\ widget_tasks' = after_add
                /\ current_tasks' = current_tasks \o <<next_id>>
    /\ status_count' = Len(current_tasks')
    /\ UNCHANGED same_list
    /\ UNCHANGED codec_vars
    /\ UNCHANGED expand_vars
    /\ UNCHANGED store_vars
    /\ UNCHANGED engine_vars
    /\ UNCHANGED resolve_vars
    /\ UNCHANGED remind_vars

\* MainWindow.on_task_saved for a stored Task of the widget: update_task in
\* the database and in the widget (the item is replaced in place),
\* update_status().
UpdateTask(t) ==
    /\ t \in Range(widget_tasks)
    /\ status_count' = Len(current_tasks)
    /\ UNCHANGED <<db_tasks, next_id, current_tasks, widget_tasks, same_list>>
    /\ UNCHANGED codec_vars
    /\ UNCHANGED expand_vars
    /\ UNCHANGED store_vars
    /\ UNCHANGED engine_vars
    /\ UNCHANGED resolve_vars
    /\ UNCHANGED remind_vars

\* MainWindow.delete_task for a Task of the widget, confirmed: delete_task in
\* the database, task_list_widget.remove_task(task), which binds a new list
\* in the widget, update_status().
DeleteTask(t) ==
    /\ t \in Range(widget_tasks)
    /\ db_tasks' = db_tasks \ {t}
    /\ widget_tasks' = without_task(widget_tasks, t)
    /\ same_list' = FALSE
    /\ status_count' = Len(current_tasks)
    /\ UNCHANGED <<next_id, current_tasks>>
    /\ UNCHANGED codec_vars
    /\ UNCHANGED expand_vars
    /\ UNCHANGED store_vars
    /\ UNCHANGED engine_vars
    /\ UNCHANGED resolve_vars
    /\ UNCHANGED remind_vars

WindowNext ==
    \/ LoadTasks
    \/ SaveNewTask
    \/ \E t \in 1..MaxTasks : UpdateTask(t)
    \/ \E t \in 1..MaxTasks : DeleteTask(t)

SpecWindow == WindowInit /\ [][WindowNext]_vars

\* How many times a task is in a list.
TimesIn(list, t) == Cardinality({i \in 1..Len(list) : list[i] = t})

\* C30: current_tasks holds each stored task of the current list exactly once
\* and nothing else, the widget holds the same tasks, and the status counter
\* is the number of stored tasks.
C30_CurrentTasksMatchStore ==
    /\ \A t \in 1..MaxTasks : TimesIn(current_tasks, t) = (IF t \in db_tasks THEN 1 ELSE 0)
    /\ Range(widget_tasks) = Range(current_tasks)
    /\ status_count = Cardinality(db_tasks)

=============================================================================
